---- MODULE Spec2Model ----
(***************************************************************************)
(* A model of the Monkey compiler + virtual machine pair (src/src/code.rs, *)
(* src/src/compiler.rs, src/src/vm.rs) driven by the REPL loop of          *)
(* src/src/main.rs, together with the tree-walking evaluator               *)
(* (src/src/evaluator.rs) the REPL runs in its other mode.                 *)
(*                                                                         *)
(* Values, instructions and AST nodes are records tagged by a field        *)
(* (t, op, e, s); Option<T> is a sequence of length 0 (None) or 1 (Some).  *)
(* A panic of the Rust code is the flag "fatal" of the object it happens   *)
(* in; the process then aborts (pc = "fatal").                             *)
(***************************************************************************)
EXTENDS Integers, Sequences, FiniteSets, TLC

\* ------------------------------------------------------------------------
\* Bounds of the model
\* ------------------------------------------------------------------------

\* REPL lines read in one session
MaxLines == 2

\* call frames the VM may hold before the model stops following a run
MaxFrames == 4

\* define calls made on the table of SpecSym
MaxDefs == 4

\* eval_call activations the native stack holds before the evaluator aborts
MaxEvalDepth == 5

\* the tables nested in one another that a chain of symbol tables is followed to
MaxScopes == 3

\* the longest input of SpecLex, in chars, and the most tokens taken from one
MaxInput == 3

MaxTokens == 4

\* the longest sequence of SpecParse made of every token of Lexemes, in tokens,
\* and the most statements taken from one parser
MaxParse == 3

MaxStatements == 3

\* ------------------------------------------------------------------------
\* Option<T>
\* ------------------------------------------------------------------------

None == << >>

Some(x) == << x >>

IsSome(o) == Len(o) = 1

Unwrap(o) == o[1]

\* ------------------------------------------------------------------------
\* object.rs: Object
\* ------------------------------------------------------------------------

IntObj(v) == [t |-> "Int", i |-> v]

StrObj(v) == [t |-> "Str", s |-> v]

BoolObj(v) == [t |-> "Bool", b |-> v]

NULL == [t |-> "Null"]

TRUE_OBJ == BoolObj(TRUE)

FALSE_OBJ == BoolObj(FALSE)

ArrayObj(v) == [t |-> "Array", elems |-> v]

CompiledFunction(instrs, nl, np) ==
    [t |-> "CompiledFunction", instructions |-> instrs, num_locals |-> nl, num_paras |-> np]

\* i32::MIN and i32::MAX
I32Max == 2147483647

I32Min == -I32Max - 1

\* whether l + r leaves i32 (decided without leaving it)
AddOverflows(l, r) == (r > 0 /\ l > I32Max - r) \/ (r < 0 /\ l < I32Min - r)

\* l + r in two's complement
WrapAdd(l, r) ==
    IF ~AddOverflows(l, r) THEN l + r
    ELSE IF r > 0 THEN (l + I32Min) + (r + I32Min)
    ELSE (l - I32Min) + (r - I32Min)

\* -x in two's complement
WrapNeg(x) == IF x = I32Min THEN I32Min ELSE -x

\* l - r in two's complement
WrapSub(l, r) == IF r = I32Min THEN WrapAdd(WrapAdd(l, I32Max), 1) ELSE WrapAdd(l, -r)

SubOverflows(l, r) == (r < 0 /\ l > I32Max + r) \/ (r > 0 /\ l < I32Min + r)

\* the three limbs (11, 11 and 10 bits) of the two's-complement pattern of x
Limbs(x) == << x % 2048, (x \div 2048) % 2048, (x \div 4194304) % 1024 >>

\* l * r in two's complement: the low 32 bits of the product of the limbs
WrapMul(l, r) ==
    LET a == Limbs(l)
        b == Limbs(r)
        c0 == a[1] * b[1]
        c1 == (a[1] * b[2] + a[2] * b[1]) % 2097152
        c2 == (a[1] * b[3] + a[2] * b[2] + a[3] * b[1]) % 1024
        lo_sum == c0 + (c1 % 32) * 2048
        lo == lo_sum % 65536
        hi == ((lo_sum \div 65536) + (c1 \div 32) + c2 * 64) % 65536
    IN  IF hi >= 32768 THEN (hi - 65536) * 65536 + lo ELSE hi * 65536 + lo

\* i32 division, truncating toward zero (r # 0, and not i32::MIN / -1)
TruncDiv(l, r) ==
    IF r = I32Min THEN (IF l = I32Min THEN 1 ELSE 0)
    ELSE IF r = 1 THEN l
    ELSE IF l = I32Min
    THEN LET ar == IF r < 0 THEN -r ELSE r
             q == (I32Max \div ar) + (IF (I32Max % ar) + 1 = ar THEN 1 ELSE 0)
         IN  IF r < 0 THEN q ELSE -q
    ELSE LET al == IF l < 0 THEN -l ELSE l
             ar == IF r < 0 THEN -r ELSE r
         IN  IF (l < 0) = (r < 0) THEN al \div ar ELSE -(al \div ar)

MulOverflows(l, r) ==
    /\ l # 0
    /\ r # 0
    /\ \/ (l = -1 /\ r = I32Min)
       \/ (r = -1 /\ l = I32Min)
       \/ (l # -1 /\ r # -1 /\ TruncDiv(WrapMul(l, r), r) # l)

\* ------------------------------------------------------------------------
\* code.rs: Code
\* ------------------------------------------------------------------------

Op(name) == [op |-> name]

OpN(name, k) == [op |-> name, n |-> k]

Constant(obj) == [op |-> "Constant", obj |-> obj]

Pop == Op("Pop")

JumpNotTruthy(k) == OpN("JumpNotTruthy", k)

Jump(k) == OpN("Jump", k)

\* ------------------------------------------------------------------------
\* code.rs: Symbol, SymbolTable
\* ------------------------------------------------------------------------

Symbol(name, scope, index) == [name |-> name, scope |-> scope, index |-> index]

\* SymbolTable::new; map is the set of the Symbols stored, one per name
NewSymbolTable(outer) == [outer |-> outer, map |-> {}, num_definitions |-> 0]

\* a faulty define, against which the symbol-table invariant is tested: a name
\* defined again keeps the index it has and allocates none
define_reusing(table, name) ==
    LET hit == {s \in table.map : s.name = name}
    IN  IF hit # {}
        THEN [table |-> table, symbol |-> CHOOSE s \in hit : TRUE]
        ELSE LET symbol == Symbol(name, IF IsSome(table.outer) THEN "Local" ELSE "Global",
                                  table.num_definitions)
             IN  [table |-> [table EXCEPT !.num_definitions = @ + 1,
                                          !.map = @ \cup {symbol}],
                  symbol |-> symbol]

\* a faulty define, against which the scope of a let is tested: every Symbol
\* is Global
define_always_global(table, name) ==
    LET index == table.num_definitions
        symbol == Symbol(name, "Global", index)
    IN  [table |-> [table EXCEPT
                      !.num_definitions = index + 1,
                      !.map = {s \in @ : s.name # name} \cup {symbol}],
         symbol |-> symbol]

\* SymbolTable::define: the table after the call and the Symbol returned
define(table, name) ==
    LET index == table.num_definitions
        symbol == Symbol(name, IF IsSome(table.outer) THEN "Local" ELSE "Global", index)
    IN  [table |-> [table EXCEPT
                      !.num_definitions = index + 1,
                      !.map = {s \in @ : s.name # name} \cup {symbol}],
         symbol |-> symbol]

RECURSIVE resolve_outer_first(_, _)
\* a faulty resolve, against which the hiding of outer definitions is tested:
\* the outer tables are searched before the table itself
resolve_outer_first(table, name) ==
    LET hit == {s \in table.map : s.name = name}
        above == IF IsSome(table.outer) THEN resolve_outer_first(Unwrap(table.outer), name)
                 ELSE None
    IN  IF IsSome(above) THEN above
        ELSE IF hit # {} THEN Some(CHOOSE s \in hit : TRUE)
        ELSE None

RECURSIVE resolve(_, _)
\* SymbolTable::resolve: Option<Symbol>
resolve(table, name) ==
    LET hit == {s \in table.map : s.name = name}
    IN  IF hit # {} THEN Some(CHOOSE s \in hit : TRUE)
        ELSE IF IsSome(table.outer) THEN resolve(Unwrap(table.outer), name)
        ELSE None

\* SymbolTable::get_outer
get_outer(table) == table.outer

\* ------------------------------------------------------------------------
\* ast.rs as compiler.rs and evaluator.rs consume it: Expression, Statement
\* ------------------------------------------------------------------------

EIdent(name) == [e |-> "Ident", name |-> name]

\* the literal's text, a sequence of digit characters
EInt(digits) == [e |-> "Int", digits |-> digits]

EStr(v) == [e |-> "Str", v |-> v]

EBool(v) == [e |-> "Bool", v |-> v]

EArray(exprs) == [e |-> "Array", exprs |-> exprs]

EPrefix(operator, expr) == [e |-> "Prefix", operator |-> operator, expr |-> expr]

EInfix(operator, left, right) ==
    [e |-> "Infix", operator |-> operator, left |-> left, right |-> right]

EIf(condition, consequence, alternative) ==
    [e |-> "If", condition |-> condition, consequence |-> consequence,
     alternative |-> alternative]

EFunction(parameters, body) == [e |-> "Function", parameters |-> parameters, body |-> body]

ECall(function, arguments) == [e |-> "Call", function |-> function, arguments |-> arguments]

SLet(ident, expr) == [s |-> "Let", ident |-> ident, expr |-> expr]

SReturn(expr) == [s |-> "Return", expr |-> expr]

SExpr(expr) == [s |-> "Expr", expr |-> expr]

SBlock(stmts) == [s |-> "Block", stmts |-> stmts]

\* ------------------------------------------------------------------------
\* i32::from_str_radix(&v, 10) on a digit string: Option<i32>
\* ------------------------------------------------------------------------

DigitValue(c) ==
    CASE c = "0" -> 0 [] c = "1" -> 1 [] c = "2" -> 2 [] c = "3" -> 3 [] c = "4" -> 4
      [] c = "5" -> 5 [] c = "6" -> 6 [] c = "7" -> 7 [] c = "8" -> 8 [] c = "9" -> 9

RECURSIVE ParseDigits(_, _)
\* the checked accumulation of from_str_radix: None on overflow
ParseDigits(acc, digits) ==
    IF digits = << >> THEN Some(acc)
    ELSE IF acc > (I32Max - DigitValue(Head(digits))) \div 10 THEN None
    ELSE ParseDigits(10 * acc + DigitValue(Head(digits)), Tail(digits))

from_str_radix(digits) == IF digits = << >> THEN None ELSE ParseDigits(0, digits)

\* ------------------------------------------------------------------------
\* compiler.rs: Compiler
\* ------------------------------------------------------------------------

\* Compiler::new (the input is the parser's statement list)
Compiler_new(input, symbol_table) ==
    [input |-> input, scopes |-> << >>, instructions |-> << >>,
     symbol_table |-> symbol_table, fatal |-> FALSE]

\* a panic inside the compiler
CompilerPanic(c) == [c EXCEPT !.fatal = TRUE]

\* self.instructions.push(code)
Emit(c, code) == IF c.fatal THEN c ELSE [c EXCEPT !.instructions = Append(@, code)]

\* Vec::swap_remove(pos), pos counted from 0: the element at pos is replaced by the last
SwapRemove(v, pos) ==
    IF pos = Len(v) - 1 THEN SubSeq(v, 1, Len(v) - 1)
    ELSE [k \in 1..(Len(v) - 1) |-> IF k = pos + 1 THEN v[Len(v)] ELSE v[k]]

\* Compiler::enter_scope
enter_scope(c) ==
    [c EXCEPT !.symbol_table = NewSymbolTable(Some(c.symbol_table)),
              !.scopes = Append(@, c.instructions),
              !.instructions = << >>]

\* a faulty leave_scope, against which the effect of a function literal on
\* the enclosing scope is tested: the function's own table is kept
leave_scope_keeping_table(c) ==
    [c |-> [c EXCEPT !.instructions = c.scopes[Len(c.scopes)],
                     !.scopes = SubSeq(@, 1, Len(@) - 1)],
     instructions |-> c.instructions,
     num_locals |-> c.symbol_table.num_definitions]

\* a faulty leave_scope, against which the slots of a function are counted:
\* num_locals is the number of names the function's table binds
leave_scope_counting_names(c) ==
    [c |-> [c EXCEPT !.symbol_table = Unwrap(get_outer(c.symbol_table)),
                     !.instructions = c.scopes[Len(c.scopes)],
                     !.scopes = SubSeq(@, 1, Len(@) - 1)],
     instructions |-> c.instructions,
     num_locals |-> Cardinality(c.symbol_table.map)]

\* Compiler::leave_scope: the compiler after the call, and the pair it returns
leave_scope(c) ==
    [c |-> [c EXCEPT !.symbol_table = Unwrap(get_outer(c.symbol_table)),
                     !.instructions = c.scopes[Len(c.scopes)],
                     !.scopes = SubSeq(@, 1, Len(@) - 1)],
     instructions |-> c.instructions,
     num_locals |-> c.symbol_table.num_definitions]

\* a faulty StripPop, against which the layout of an If is tested: the
\* trailing Pop of a branch is kept
StripPop_kept(c) == c

\* the match on self.instructions.pop().unwrap() of compile_if: drop a trailing Pop
StripPop(c) ==
    IF c.fatal THEN c
    ELSE IF c.instructions[Len(c.instructions)] = Pop
         THEN [c EXCEPT !.instructions = SubSeq(@, 1, Len(@) - 1)]
         ELSE c

RECURSIVE compile_statement(_, _)
RECURSIVE compile_expression(_, _)
RECURSIVE compile_statements(_, _)
RECURSIVE compile_expressions(_, _)

\* Compiler::compile_ident
compile_ident(c, v) ==
    LET r == resolve(c.symbol_table, v)
    IN  IF ~IsSome(r) THEN CompilerPanic(c)
        ELSE IF Unwrap(r).scope = "Global" THEN Emit(c, OpN("GetGlobal", Unwrap(r).index))
        ELSE Emit(c, OpN("GetLocal", Unwrap(r).index))

\* Compiler::compile_int
compile_int(c, v) ==
    LET r == from_str_radix(v)
    IN  IF ~IsSome(r) THEN CompilerPanic(c) ELSE Emit(c, Constant(IntObj(Unwrap(r))))

\* Compiler::compile_bool
compile_bool(c, v) ==
    IF v = "true" THEN Emit(c, Op("True"))
    ELSE IF v = "false" THEN Emit(c, Op("False"))
    ELSE CompilerPanic(c)

\* Compiler::compile_array
compile_array(c, exprs) ==
    Emit(compile_expressions(c, exprs), OpN("Array", Len(exprs)))

\* Compiler::compile_prefix
compile_prefix(c, operator, expr) ==
    LET c1 == compile_expression(c, expr)
    IN  IF c1.fatal THEN c1
        ELSE IF operator = "-" THEN Emit(c1, Op("Minus"))
        ELSE IF operator = "!" THEN Emit(c1, Op("Bang"))
        ELSE CompilerPanic(c1)

\* the instruction compile_infix emits for an operator: Option<Code>
InfixCode(operator) ==
    CASE operator = "+" -> Some(Op("Add"))
      [] operator = "-" -> Some(Op("Sub"))
      [] operator = "*" -> Some(Op("Mul"))
      [] operator = "/" -> Some(Op("Div"))
      [] operator = "==" -> Some(Op("Equal"))
      [] operator = "!=" -> Some(Op("NotEqual"))
      [] operator = ">" -> Some(Op("GreaterThan"))
      [] operator = "<" -> Some(Op("LessThan"))
      [] operator = "[" -> Some(Op("Index"))
      [] OTHER -> None

\* Compiler::compile_infix
compile_infix(c, operator, left, right) ==
    LET c1 == compile_expression(compile_expression(c, left), right)
    IN  IF c1.fatal THEN c1
        ELSE IF IsSome(InfixCode(operator)) THEN Emit(c1, Unwrap(InfixCode(operator)))
        ELSE CompilerPanic(c1)

\* the operand of the placeholder jumps of compile_if
Placeholder == 9999

\* a faulty compile_if_consequence, against which the range of the jumps is
\* tested: the operand is the absolute position, not the distance from pos
compile_if_consequence_absolute(c, consequence) ==
    LET pos == Len(c.instructions)
        c1 == StripPop(compile_statement(Emit(c, JumpNotTruthy(Placeholder)), consequence))
    IN  IF c1.fatal THEN c1
        ELSE [c1 EXCEPT !.instructions =
                 SwapRemove(Append(@, JumpNotTruthy(Len(c1.instructions))), pos)]

\* compile_if, lines 157-166: the consequence and its JumpNotTruthy
compile_if_consequence(c, consequence) ==
    LET pos == Len(c.instructions)
        c1 == StripPop(compile_statement(Emit(c, JumpNotTruthy(Placeholder)), consequence))
        offset == Len(c1.instructions) - pos
    IN  IF c1.fatal THEN c1
        ELSE [c1 EXCEPT !.instructions = SwapRemove(Append(@, JumpNotTruthy(offset)), pos)]

\* a faulty compile_if_alternative, against which the sum of the offsets is
\* tested: the operand counts the Jump itself
compile_if_alternative_counting_jump(c, alternative) ==
    LET pos == Len(c.instructions)
        c1 == StripPop(compile_statement(Emit(c, Jump(Placeholder)), alternative))
        offset == Len(c1.instructions) - pos
        c2 == IF offset = 1 THEN Emit(c1, Op("Null")) ELSE c1
        offset2 == IF offset = 1 THEN 2 ELSE offset
    IN  IF c1.fatal THEN c1
        ELSE [c2 EXCEPT !.instructions = SwapRemove(Append(@, Jump(offset2)), pos)]

\* compile_if, lines 168-181: the alternative, its Jump and the Null padding
compile_if_alternative(c, alternative) ==
    LET pos == Len(c.instructions)
        c1 == StripPop(compile_statement(Emit(c, Jump(Placeholder)), alternative))
        offset == Len(c1.instructions) - 1 - pos
        c2 == IF offset = 0 THEN Emit(c1, Op("Null")) ELSE c1
        offset2 == IF offset = 0 THEN 1 ELSE offset
    IN  IF c1.fatal THEN c1
        ELSE [c2 EXCEPT !.instructions = SwapRemove(Append(@, Jump(offset2)), pos)]

\* Compiler::compile_if
compile_if(c, condition, consequence, alternative) ==
    LET c1 == compile_expression(c, condition)
    IN  IF c1.fatal THEN c1
        ELSE LET c2 == compile_if_consequence(c1, consequence)
             IN  IF c2.fatal THEN c2 ELSE compile_if_alternative(c2, alternative)

RECURSIVE define_parameters(_, _)
\* the loop over the parameters of compile_function
define_parameters(c, parameters) ==
    IF c.fatal \/ parameters = << >> THEN c
    ELSE IF Head(parameters).e # "Ident" THEN CompilerPanic(c)
    ELSE define_parameters(
             [c EXCEPT !.symbol_table = define(@, Head(parameters).name).table],
             Tail(parameters))

\* compile_function, lines 196-200: the tail of the function's own instructions
FunctionTail(instructions) ==
    IF instructions = << >> THEN << Op("Return") >>
    ELSE IF instructions[Len(instructions)] = Pop
         THEN Append(SubSeq(instructions, 1, Len(instructions) - 1), Op("ReturnValue"))
         ELSE instructions

\* Compiler::compile_function
compile_function(c, parameters, body) ==
    LET c1 == compile_statement(define_parameters(enter_scope(c), parameters), body)
        left == leave_scope(c1)
    IN  IF c1.fatal THEN c1
        ELSE Emit(left.c, Constant(CompiledFunction(FunctionTail(left.instructions),
                                                    left.num_locals, Len(parameters))))

\* Compiler::compile_call
compile_call(c, function, arguments) ==
    Emit(compile_expressions(compile_expression(c, function), arguments),
         OpN("Call", Len(arguments)))

\* a faulty compile_let, against which the globals under a call are tested:
\* every let is taken for a global one
compile_let_as_global(c, ident, expr) ==
    LET c1 == compile_expression(c, expr)
    IN  IF c1.fatal THEN c1
        ELSE IF ident.e # "Ident" THEN CompilerPanic(c1)
        ELSE LET d == define(c1.symbol_table, ident.name)
             IN  Emit([c1 EXCEPT !.symbol_table = d.table],
                      OpN("SetGlobal", d.symbol.index))

\* a faulty compile_let, against which the order of a let is tested: the name
\* is defined before the expression is compiled
compile_let_defining_first(c, ident, expr) ==
    IF ident.e # "Ident" THEN CompilerPanic(c)
    ELSE LET d == define(c.symbol_table, ident.name)
         IN  Emit(compile_expression([c EXCEPT !.symbol_table = d.table], expr),
                  IF d.symbol.scope = "Global" THEN OpN("SetGlobal", d.symbol.index)
                  ELSE OpN("SetLocal", d.symbol.index))

\* Compiler::compile_let
compile_let(c, ident, expr) ==
    LET c1 == compile_expression(c, expr)
    IN  IF c1.fatal THEN c1
        ELSE IF ident.e # "Ident" THEN CompilerPanic(c1)
        ELSE LET d == define(c1.symbol_table, ident.name)
             IN  Emit([c1 EXCEPT !.symbol_table = d.table],
                      IF d.symbol.scope = "Global" THEN OpN("SetGlobal", d.symbol.index)
                      ELSE OpN("SetLocal", d.symbol.index))

\* Compiler::compile_expression
compile_expression(c, expr) ==
    IF c.fatal THEN c
    ELSE CASE expr.e = "Ident" -> compile_ident(c, expr.name)
           [] expr.e = "Int" -> compile_int(c, expr.digits)
           [] expr.e = "Str" -> Emit(c, Constant(StrObj(expr.v)))
           [] expr.e = "Bool" -> compile_bool(c, expr.v)
           [] expr.e = "Array" -> compile_array(c, expr.exprs)
           [] expr.e = "Prefix" -> compile_prefix(c, expr.operator, expr.expr)
           [] expr.e = "Infix" -> compile_infix(c, expr.operator, expr.left, expr.right)
           [] expr.e = "If" ->
                compile_if(c, expr.condition, expr.consequence, expr.alternative)
           [] expr.e = "Function" -> compile_function(c, expr.parameters, expr.body)
           [] expr.e = "Call" -> compile_call(c, expr.function, expr.arguments)

\* a loop compiling expressions left to right (compile_array, compile_call)
compile_expressions(c, exprs) ==
    IF c.fatal \/ exprs = << >> THEN c
    ELSE compile_expressions(compile_expression(c, Head(exprs)), Tail(exprs))

\* Compiler::compile_statement
compile_statement(c, stmt) ==
    IF c.fatal THEN c
    ELSE CASE stmt.s = "Let" -> compile_let(c, stmt.ident, stmt.expr)
           [] stmt.s = "Return" -> Emit(compile_expression(c, stmt.expr), Op("ReturnValue"))
           [] stmt.s = "Expr" -> Emit(compile_expression(c, stmt.expr), Pop)
           [] stmt.s = "Block" -> compile_statements(c, stmt.stmts)

\* a loop compiling statements in order (Compiler::run, Statement::Block)
compile_statements(c, stmts) ==
    IF c.fatal \/ stmts = << >> THEN c
    ELSE compile_statements(compile_statement(c, Head(stmts)), Tail(stmts))

\* Compiler::run: the compiler when it returns (instructions, symbol_table)
compiler_run(c) == compile_statements(c, c.input)

\* ------------------------------------------------------------------------
\* token.rs and lexer.rs.  A char is a string of length one and the input is
\* the sequence of its chars.  pos and next_pos are usize: they are kept modulo
\* 2^64, with usize::MAX written -1.
\* ------------------------------------------------------------------------

\* a Token: the variant and the String it holds
Token(kind, s) == [kind |-> kind, s |-> s]

\* char::is_ascii_digit
AsciiDigits ==
    { "0", "1", "2", "3", "4", "5", "6", "7", "8", "9" }

\* the letters of char::is_ascii_alphanumeric
AsciiLetters ==
    { "a", "b", "c", "d", "e", "f", "g", "h", "i", "j", "k", "l", "m", "n", "o", "p",
      "q", "r", "s", "t", "u", "v", "w", "x", "y", "z", "A", "B", "C", "D", "E", "F",
      "G", "H", "I", "J", "K", "L", "M", "N", "O", "P", "Q", "R", "S", "T", "U", "V",
      "W", "X", "Y", "Z" }

\* char::is_whitespace, the chars of it a line can hold
Whitespace == { " ", "\t", "\n", "\r" }

\* the tokens of one char that no other char can extend
Punctuation ==
    ("+" :> "Plus") @@ ("-" :> "Minus") @@ ("*" :> "Asterisk") @@ ("/" :> "Slash")
        @@ ("<" :> "LT") @@ (">" :> "GT") @@ ("(" :> "Lparen") @@ (")" :> "Rparen")
        @@ ("{" :> "Lbrace") @@ ("}" :> "Rbrace") @@ ("," :> "Comma") @@ (";" :> "Semicolon")

\* Lexer::new
Lexer_new(chars) == [input |-> chars, pos |-> 0, next_pos |-> 1]

\* whether the usize x is less than the length n
Below(x, n) == 0 <= x /\ x < n

\* Lexer::ch
Lexer_ch(l) == IF Below(l.pos, Len(l.input)) THEN Some(l.input[l.pos + 1]) ELSE None

\* Lexer::next_ch
Lexer_next_ch(l) ==
    IF Below(l.next_pos, Len(l.input)) THEN Some(l.input[l.next_pos + 1]) ELSE None

\* Lexer::forward
Lexer_forward(l) == [l EXCEPT !.pos = @ + 1, !.next_pos = @ + 1]

\* Lexer::backward: Option<Lexer>, None when the subtraction panics, which it
\* does at 0 in a build with overflow checks (checks); it wraps in one without
Lexer_backward(l, checks) ==
    IF (l.pos = 0 \/ l.next_pos = 0) /\ checks THEN None
    ELSE Some([l EXCEPT !.pos = @ - 1, !.next_pos = @ - 1])

\* what a call on the lexer comes to: the lexer after it, the Option<Token>
\* returned, and whether the call panicked
Lexed(l, token, fatal) == [l |-> l, token |-> token, fatal |-> fatal]

\* the end of read_word: the lexer steps back and the token is returned
read_word_end(l, b, token) ==
    IF IsSome(b) THEN Lexed(Unwrap(b), Some(token), FALSE) ELSE Lexed(l, None, TRUE)

\* the match of read_word on the word read
Keyword(s) ==
    CASE s = "fn" -> Token("Function", s)
      [] s = "let" -> Token("Let", s)
      [] s = "if" -> Token("If", s)
      [] s = "else" -> Token("Else", s)
      [] s = "true" -> Token("True", s)
      [] s = "false" -> Token("False", s)
      [] s = "return" -> Token("Return", s)
      [] OTHER -> Token("Ident", s)

RECURSIVE read_digits(_, _, _)
\* read_word, the loop over the digits
read_digits(l, s, checks) ==
    IF IsSome(Lexer_ch(l)) /\ Unwrap(Lexer_ch(l)) \in AsciiDigits
    THEN read_digits(Lexer_forward(l), s \o Unwrap(Lexer_ch(l)), checks)
    ELSE read_word_end(l, Lexer_backward(l, checks), Token("Int", s))

RECURSIVE read_letters(_, _, _)
\* read_word, the loop over the letters, digits and underscores
read_letters(l, s, checks) ==
    IF IsSome(Lexer_ch(l)) /\ Unwrap(Lexer_ch(l)) \in AsciiLetters \cup AsciiDigits \cup {"_"}
    THEN read_letters(Lexer_forward(l), s \o Unwrap(Lexer_ch(l)), checks)
    ELSE read_word_end(l, Lexer_backward(l, checks), Keyword(s))

\* Lexer::read_word
read_word(l, ch, checks) ==
    IF ch \in AsciiDigits THEN read_digits(l, "", checks) ELSE read_letters(l, "", checks)

RECURSIVE skip_whitespace(_)
\* Lexer::next, the loop over the whitespace
skip_whitespace(l) ==
    IF IsSome(Lexer_ch(l)) /\ Unwrap(Lexer_ch(l)) \in Whitespace
    THEN skip_whitespace(Lexer_forward(l))
    ELSE l

\* Lexer::next, the match on the current char ch
next_match(l, ch, checks) ==
    IF ch = None THEN Lexed(l, None, FALSE)
    ELSE IF ch = Some("=") THEN
        IF Lexer_next_ch(l) = Some("=")
        THEN Lexed(Lexer_forward(l), Some(Token("Eq", "==")), FALSE)
        ELSE Lexed(l, Some(Token("Assign", "=")), FALSE)
    ELSE IF ch = Some("!") THEN
        IF Lexer_next_ch(l) = Some("=")
        THEN Lexed(Lexer_forward(l), Some(Token("NotEq", "!=")), FALSE)
        ELSE Lexed(l, Some(Token("Bang", "!")), FALSE)
    ELSE IF Unwrap(ch) \in DOMAIN Punctuation
    THEN Lexed(l, Some(Token(Punctuation[Unwrap(ch)], Unwrap(ch))), FALSE)
    ELSE IF ch = Some("NUL") THEN Lexed(l, Some(Token("EOF", "")), FALSE)
    ELSE read_word(l, Unwrap(ch), checks)

\* Lexer::next, the forward that ends it
next_forward(r) == IF r.fatal THEN r ELSE [r EXCEPT !.l = Lexer_forward(@)]

\* Lexer::next once the whitespace has been passed over
next_skipped(l, checks) == next_forward(next_match(l, Lexer_ch(l), checks))

\* Lexer::next; the char '\0' is written "NUL"
Lexer_next(l, checks) == next_skipped(skip_whitespace(l), checks)

\* ------------------------------------------------------------------------
\* parser.rs.  A Result<_, String> is the value itself when Ok and an Err
\* record when Err; an Int and a Bool hold the String of their token.
\* ------------------------------------------------------------------------

\* the precedences
LOWEST == 0

EQUALS == 1

LESSGREATER == 2

SUM == 3

PRODUCT == 4

PREFIX == 5

CALL == 6

\* Parser::new, the tokens being what the lexer was collected to
Parser_new(toks) == [input |-> toks, pos |-> 0, next_pos |-> 1]

\* Parser::token
Parser_token(p) == IF Below(p.pos, Len(p.input)) THEN Some(p.input[p.pos + 1]) ELSE None

\* the variant of the current token, "None" when there is none
Kind(p) == IF IsSome(Parser_token(p)) THEN Unwrap(Parser_token(p)).kind ELSE "None"

\* the String of the current token
Text(p) == Unwrap(Parser_token(p)).s

\* Parser::forward
Parser_forward(p) == [p EXCEPT !.pos = @ + 1, !.next_pos = @ + 1]

\* Result::Err(format!(msg, tk)), of an expression or of a statement
Err(msg, tk) == [e |-> "Err", s |-> "Err", msg |-> msg, token |-> tk]

\* Err(format!("Expect Token::kind, get {:?}.", self.token()))
Expect(kind, p) == Err("Expect Token::" \o kind, Parser_token(p))

\* what a call on the parser comes to: the parser after it, the value
\* returned, and whether the call returned ("ok"), panicked ("fatal") or is in
\* a loop it never leaves ("hung")
Parsed(p, v) == [p |-> p, v |-> v, st |-> "ok"]

ParserPanic(p) == [p |-> p, v |-> << >>, st |-> "fatal"]

ParserHangs(p) == [p |-> p, v |-> << >>, st |-> "hung"]

\* Parser::get_precedence, on the variant of the token
get_precedence(kind) ==
    CASE kind \in {"Eq", "NotEq"} -> EQUALS
      [] kind \in {"LT", "GT"} -> LESSGREATER
      [] kind \in {"Plus", "Minus"} -> SUM
      [] kind \in {"Slash", "Asterisk"} -> PRODUCT
      [] kind = "Lparen" -> CALL
      [] OTHER -> LOWEST

RECURSIVE parse_statement(_)
RECURSIVE parse_expression(_, _)
RECURSIVE infix_loop(_, _)
RECURSIVE parse_prefix(_)
RECURSIVE parse_infix(_, _)
RECURSIVE block_loop(_, _)
RECURSIVE arguments_loop(_, _)
RECURSIVE parameters_loop(_, _)

\* the end of parse_let_statement and of parse_return_statement: r is the
\* expression parsed and stmt the statement it makes
statement_end(r, stmt) ==
    IF r.st # "ok" THEN r
    ELSE IF Kind(r.p) = "Semicolon" THEN Parsed(Parser_forward(r.p), stmt)
    ELSE Parsed(r.p, Expect("Semicolon", r.p))

\* parse_let_statement once the expression has been parsed to r
let_end(ident, r) == statement_end(r, SLet(ident, r.v))

\* Parser::parse_let_statement; p1 is the parser after the first forward
parse_let_statement(p1) ==
    IF Kind(p1) # "Ident" THEN Parsed(p1, Expect("Ident", p1))
    ELSE IF Kind(Parser_forward(p1)) # "Assign"
    THEN Parsed(Parser_forward(p1), Expect("Assign", Parser_forward(p1)))
    ELSE let_end(EIdent(Text(p1)),
                 parse_expression(Parser_forward(Parser_forward(p1)), LOWEST))

\* parse_return_statement once the expression has been parsed to r
return_end(r) == statement_end(r, SReturn(r.v))

\* Parser::parse_return_statement
parse_return_statement(p) == return_end(parse_expression(Parser_forward(p), LOWEST))

\* parse_expr_statement once the expression has been parsed to r
expr_end(r) ==
    IF r.st # "ok" THEN r
    ELSE Parsed(IF Kind(r.p) = "Semicolon" THEN Parser_forward(r.p) ELSE r.p, SExpr(r.v))

\* Parser::parse_expr_statement
parse_expr_statement(p) == expr_end(parse_expression(p, LOWEST))

\* a statement as the Option parse_statement returns
some_statement(r) == IF r.st # "ok" THEN r ELSE Parsed(r.p, Some(r.v))

\* Parser::parse_statement
parse_statement(p) ==
    CASE Kind(p) = "Let" -> some_statement(parse_let_statement(Parser_forward(p)))
      [] Kind(p) = "Return" -> some_statement(parse_return_statement(p))
      [] Kind(p) = "None" -> Parsed(p, None)
      [] OTHER -> some_statement(parse_expr_statement(p))

\* the loop of parse_expression, expr having been parsed to r
infix_loop(r, precedence) ==
    IF r.st # "ok" THEN r
    ELSE IF precedence < get_precedence(Kind(r.p))
    THEN infix_loop(parse_infix(r.p, r.v), precedence)
    ELSE r

\* Parser::parse_expression
parse_expression(p, precedence) == infix_loop(parse_prefix(p), precedence)

\* parse_prefix on a prefix operator, once the operand has been parsed to r
prefix_end(operator, r) ==
    IF r.st # "ok" THEN r ELSE Parsed(r.p, EPrefix(operator, r.v))

\* parse_prefix on a left parenthesis, once the expression has been parsed to r
paren_end(r) ==
    IF r.st # "ok" THEN r
    ELSE IF Kind(r.p) = "Rparen" THEN Parsed(Parser_forward(r.p), r.v)
    ELSE Parsed(r.p, Expect("Rparen", r.p))

\* parse_prefix on if, once the alternative has been parsed to a
if_alternative(condition, consequence, a) ==
    IF a.st # "ok" THEN a
    ELSE IF Kind(a.p) # "Rbrace" THEN Parsed(a.p, Expect("Rbrace", a.p))
    ELSE Parsed(Parser_forward(a.p), EIf(condition, consequence, a.v))

\* parse_prefix on if, after the right brace of the consequence; p is at the
\* token that follows it
if_else(condition, consequence, p) ==
    IF Kind(p) # "Else" THEN Parsed(p, EIf(condition, consequence, SBlock(<< >>)))
    ELSE IF Kind(Parser_forward(p)) # "Lbrace"
    THEN Parsed(Parser_forward(p), Expect("Lbrace", Parser_forward(p)))
    ELSE if_alternative(condition, consequence,
                        block_loop(Parser_forward(Parser_forward(p)), << >>))

\* parse_prefix on if, once the consequence has been parsed to b
if_consequence(condition, b) ==
    IF b.st # "ok" THEN b
    ELSE IF Kind(b.p) # "Rbrace" THEN Parsed(b.p, Expect("Rbrace", b.p))
    ELSE if_else(condition, b.v, Parser_forward(b.p))

\* parse_prefix on if, once the condition has been parsed to c
if_condition(c) ==
    IF c.st # "ok" THEN c
    ELSE IF Kind(c.p) # "Rparen" THEN Parsed(c.p, Expect("Rparen", c.p))
    ELSE IF Kind(Parser_forward(c.p)) # "Lbrace"
    THEN Parsed(Parser_forward(c.p), Expect("Lbrace", Parser_forward(c.p)))
    ELSE if_consequence(c.v, block_loop(Parser_forward(Parser_forward(c.p)), << >>))

\* parse_prefix on if; p1 is the parser after the first forward
parse_if(p1) ==
    IF Kind(p1) # "Lparen" THEN Parsed(p1, Expect("Lparen", p1))
    ELSE if_condition(parse_expression(Parser_forward(p1), LOWEST))

\* the loop of parse_prefix over the parameters of a function
parameters_loop(p, parameters) ==
    IF Kind(Parser_forward(p)) = "Comma"
    THEN parameters_loop(Parser_forward(Parser_forward(p)),
                         IF Kind(p) = "Ident" THEN Append(parameters, EIdent(Text(p)))
                         ELSE parameters)
    ELSE Parsed(Parser_forward(p),
                IF Kind(p) = "Ident" THEN Append(parameters, EIdent(Text(p)))
                ELSE parameters)

\* parse_prefix on fn, once the body has been parsed to b
function_end(parameters, b) ==
    IF b.st # "ok" THEN b
    ELSE IF Kind(b.p) # "Rbrace" THEN Parsed(b.p, Expect("Rbrace", b.p))
    ELSE Parsed(Parser_forward(b.p), EFunction(parameters, b.v))

\* parse_prefix on fn, once the parameters have been parsed to ps
function_body(ps) ==
    IF Kind(ps.p) # "Rparen" THEN Parsed(ps.p, Expect("Rparen", ps.p))
    ELSE IF Kind(Parser_forward(ps.p)) # "Lbrace"
    THEN Parsed(Parser_forward(ps.p), Expect("Lbrace", Parser_forward(ps.p)))
    ELSE function_end(ps.v, block_loop(Parser_forward(Parser_forward(ps.p)), << >>))

\* parse_prefix on fn; p1 is the parser after the first forward
parse_function(p1) ==
    IF Kind(p1) # "Lparen" THEN Parsed(p1, Expect("Lparen", p1))
    ELSE IF Kind(Parser_forward(p1)) = "Rparen"
    THEN function_body(Parsed(Parser_forward(p1), << >>))
    ELSE function_body(parameters_loop(Parser_forward(p1), << >>))

\* Parser::parse_prefix
parse_prefix(p) ==
    CASE Kind(p) = "None" -> ParserPanic(p)
      [] Kind(p) = "Ident" -> Parsed(Parser_forward(p), EIdent(Text(p)))
      [] Kind(p) = "Int" -> Parsed(Parser_forward(p), EInt(Text(p)))
      [] Kind(p) \in {"True", "False"} -> Parsed(Parser_forward(p), EBool(Text(p)))
      [] Kind(p) \in {"Minus", "Bang"} ->
             prefix_end(Text(p), parse_expression(Parser_forward(p), PREFIX))
      [] Kind(p) = "Lparen" -> paren_end(parse_expression(Parser_forward(p), LOWEST))
      [] Kind(p) = "If" -> parse_if(Parser_forward(p))
      [] Kind(p) = "Function" -> parse_function(Parser_forward(p))
      [] OTHER -> Parsed(p, Err("Invalid token", Parser_token(p)))

\* the loop of parse_block_statement once a statement has been parsed to r
\* from the parser p: a statement that leaves the parser where it was is
\* parsed again and again, the loop never ending
block_next(p, r, stmts) ==
    IF r.st # "ok" THEN r
    ELSE IF r.p.pos = p.pos THEN ParserHangs(r.p)
    ELSE block_loop(r.p, Append(stmts, Unwrap(r.v)))

\* Parser::parse_block_statement; stmts are the statements parsed so far
block_loop(p, stmts) ==
    IF Kind(p) \in {"Rbrace", "None"} THEN Parsed(p, SBlock(stmts))
    ELSE block_next(p, parse_statement(p), stmts)

\* the loop of parse_infix over the arguments, once one has been parsed to r
arguments_next(r, arguments) ==
    IF r.st # "ok" THEN r
    ELSE IF Kind(r.p) = "Comma"
    THEN arguments_loop(Parser_forward(r.p), Append(arguments, r.v))
    ELSE Parsed(r.p, Append(arguments, r.v))

\* the loop of parse_infix over the arguments of a call
arguments_loop(p, arguments) == arguments_next(parse_expression(p, LOWEST), arguments)

\* parse_infix on a left parenthesis, once the arguments have been parsed to r
call_end(function, r) ==
    IF r.st # "ok" THEN r ELSE Parsed(r.p, ECall(function, r.v))

\* parse_infix on an operator, once the right operand has been parsed to r
infix_end(operator, left, r) ==
    IF r.st # "ok" THEN r ELSE Parsed(r.p, EInfix(operator, left, r.v))

\* Parser::parse_infix
parse_infix(p, left) ==
    CASE Kind(p) = "None" -> ParserPanic(p)
      [] Kind(p) = "Lparen" ->
             IF Kind(Parser_forward(p)) = "Rparen"
             THEN call_end(left, Parsed(Parser_forward(p), << >>))
             ELSE call_end(left, arguments_loop(Parser_forward(p), << >>))
      [] Kind(p) \in {"Eq", "NotEq", "LT", "GT", "Plus", "Minus", "Slash", "Asterisk"} ->
             infix_end(Text(p), left,
                       parse_expression(Parser_forward(p), get_precedence(Kind(p))))
      [] OTHER -> Parsed(p, Err("Invalid token", Parser_token(p)))

\* ------------------------------------------------------------------------
\* vm.rs: VM.  instructions holds the instructions still to run, next first
\* (the code keeps the vector reversed and pops from its back).
\* ------------------------------------------------------------------------

VARIABLES
    pc,               \* vm mode: "read" (at the prompt), "run" (inside VM::run), "fatal" (aborted)
    overflow_checks,  \* the build: "on" when i32 overflow panics, "off" when it wraps,
                      \* "unknown" while no overflow has shown which
    symbol_table,     \* main.rs:34
    globals,          \* main.rs:35
    input,            \* the statements parsed from the line being processed
    code,             \* main.rs:46, the instructions compiled from the line
    sym_table,        \* main.rs:46, the symbol table the compiler returned
    vm,               \* main.rs:47, the VM object
    printed,          \* what main.rs:49 printed for the last line that completed
    nlines,           \* lines read so far
    eval_pc,          \* evaluator mode on the same lines: "read" or "fatal" (aborted)
    environment,      \* main.rs:33
    yielded,          \* the objects main.rs:55 printed for the line being processed
    hist,             \* per active instruction vector, what the run loop has done in it
    returns,          \* the calls that have returned while the line ran
    table,            \* SpecSym: the SymbolTable under test
    allocated,        \* SpecSym: the Symbols define returned, in call order
    lexer,            \* SpecLex: the Lexer under test
    lex_pc,           \* SpecLex: "next" (more to lex), "done" (next returned None), "fatal"
    tokens,           \* SpecLex: the tokens next has returned
    parser,           \* SpecParse: the Parser under test
    parse_pc,         \* SpecParse: "next", "done", "fatal" or "hung" (a loop that never ends)
    statements        \* SpecParse: the statements next has returned

vars ==
    << pc, overflow_checks, symbol_table, globals, input, code, sym_table, vm, printed,
       nlines, eval_pc, environment, yielded, hist, returns, table, allocated,
       lexer, lex_pc, tokens, parser, parse_pc, statements >>

\* the variables of the vm-mode line being processed
lineVars == << input, code, sym_table >>

\* the variables of the evaluator-mode REPL
evalVars == << eval_pc, environment, yielded >>

\* the variables of SpecSym
symVars == << table, allocated >>

\* the variables of SpecLex and SpecParse
frontVars == << lexer, lex_pc, tokens, parser, parse_pc, statements >>

\* HashMap<usize, Object>::new
EmptyGlobals == [k \in {} |-> NULL]

\* HashMap::insert
MapInsert(m, key, value) ==
    [k \in (DOMAIN m) \cup {key} |-> IF k = key THEN value ELSE m[k]]

\* VM::new
VM_new(instructions, gl) ==
    [frames |-> << >>, instructions |-> instructions, stack |-> << >>, base |-> 0,
     last_popped |-> None, jump |-> 0, globals |-> gl, fatal |-> FALSE]

\* a panic inside the VM
VmPanic(v) == [v EXCEPT !.fatal = TRUE]

\* self.stack.push(obj)
Push(v, obj) == IF v.fatal THEN v ELSE [v EXCEPT !.stack = Append(@, obj)]

\* the top of the stack and the stack below it
Top(v) == v.stack[Len(v.stack)]

Drop(v) == [v EXCEPT !.stack = SubSeq(@, 1, Len(@) - 1)]

\* i32 arithmetic: Option<i32>, None when the operation panics.  An overflow
\* panics in a build with overflow checks (checks) and wraps in one without.
I32Add(l, r, checks) ==
    IF AddOverflows(l, r) /\ checks THEN None ELSE Some(WrapAdd(l, r))

I32Sub(l, r, checks) ==
    IF SubOverflows(l, r) /\ checks THEN None ELSE Some(WrapSub(l, r))

I32Mul(l, r, checks) ==
    IF MulOverflows(l, r) /\ checks THEN None ELSE Some(WrapMul(l, r))

I32Neg(x, checks) == IF x = I32Min /\ checks THEN None ELSE Some(WrapNeg(x))

\* a faulty division, against which the rounding of the quotient is tested:
\* the quotient is rounded down
I32Div_flooring(l, r) ==
    IF r = 0 THEN None
    ELSE IF l = I32Min /\ r = -1 THEN None
    ELSE Some(l \div r)

\* division panics on a zero divisor and on i32::MIN / -1 in every build
I32Div(l, r) ==
    IF r = 0 THEN None
    ELSE IF l = I32Min /\ r = -1 THEN None
    ELSE Some(TruncDiv(l, r))

\* VM::execute_arithmetic
execute_arithmetic(v, op, checks) ==
    IF Len(v.stack) = 0 THEN VmPanic(v)
    ELSE LET right == Top(v)
             v1 == Drop(v)
         IN  IF right.t = "Int" THEN
                 IF Len(v1.stack) = 0 THEN VmPanic(v1)
                 ELSE LET left == Top(v1)
                          v2 == Drop(v1)
                          value == CASE op = "Add" -> I32Add(left.i, right.i, checks)
                                     [] op = "Sub" -> I32Sub(left.i, right.i, checks)
                                     [] op = "Mul" -> I32Mul(left.i, right.i, checks)
                                     [] op = "Div" -> I32Div(left.i, right.i)
                      IN  IF left.t # "Int" THEN VmPanic(v2)
                          ELSE IF ~IsSome(value) THEN VmPanic(v2)
                          ELSE Push(v2, IntObj(Unwrap(value)))
             ELSE IF right.t = "Str" THEN
                 IF Len(v1.stack) = 0 THEN VmPanic(v1)
                 ELSE LET left == Top(v1)
                          v2 == Drop(v1)
                      IN  IF left.t # "Str" THEN VmPanic(v2)
                          ELSE IF op = "Add" THEN Push(v2, StrObj(left.s \o right.s))
                          ELSE VmPanic(v2)
             ELSE VmPanic(v1)

\* a faulty execute_comparison, against which the refusal of operands is
\* tested: two Bools are put in order, false before true
execute_comparison_ordering_bools(v, op) ==
    IF Len(v.stack) = 0 THEN VmPanic(v)
    ELSE LET obj_right == Top(v)
             v1 == Drop(v)
         IN  IF obj_right.t = "Int" THEN
                 IF Len(v1.stack) = 0 THEN VmPanic(v1)
                 ELSE LET obj_left == Top(v1)
                          v2 == Drop(v1)
                      IN  IF obj_left.t # "Int" THEN VmPanic(v2)
                          ELSE CASE op = "Equal" -> Push(v2, BoolObj(obj_left.i = obj_right.i))
                                 [] op = "NotEqual" -> Push(v2, BoolObj(obj_left.i # obj_right.i))
                                 [] op = "GreaterThan" -> Push(v2, BoolObj(obj_left.i > obj_right.i))
                                 [] op = "LessThan" -> Push(v2, BoolObj(obj_left.i < obj_right.i))
             ELSE IF obj_right.t = "Bool" THEN
                 IF Len(v1.stack) = 0 THEN VmPanic(v1)
                 ELSE LET obj_left == Top(v1)
                          v2 == Drop(v1)
                      IN  IF obj_left.t # "Bool" THEN VmPanic(v2)
                          ELSE CASE op = "Equal" -> Push(v2, BoolObj(obj_left.b = obj_right.b))
                                 [] op = "NotEqual" -> Push(v2, BoolObj(obj_left.b # obj_right.b))
                                 [] op = "GreaterThan" ->
                                        Push(v2, BoolObj(obj_left.b /\ ~obj_right.b))
                                 [] op = "LessThan" ->
                                        Push(v2, BoolObj(~obj_left.b /\ obj_right.b))
             ELSE VmPanic(v1)

\* VM::execute_comparison
execute_comparison(v, op) ==
    IF Len(v.stack) = 0 THEN VmPanic(v)
    ELSE LET obj_right == Top(v)
             v1 == Drop(v)
         IN  IF obj_right.t = "Int" THEN
                 IF Len(v1.stack) = 0 THEN VmPanic(v1)
                 ELSE LET obj_left == Top(v1)
                          v2 == Drop(v1)
                      IN  IF obj_left.t # "Int" THEN VmPanic(v2)
                          ELSE CASE op = "Equal" -> Push(v2, BoolObj(obj_left.i = obj_right.i))
                                 [] op = "NotEqual" -> Push(v2, BoolObj(obj_left.i # obj_right.i))
                                 [] op = "GreaterThan" -> Push(v2, BoolObj(obj_left.i > obj_right.i))
                                 [] op = "LessThan" -> Push(v2, BoolObj(obj_left.i < obj_right.i))
             ELSE IF obj_right.t = "Bool" THEN
                 IF Len(v1.stack) = 0 THEN VmPanic(v1)
                 ELSE LET obj_left == Top(v1)
                          v2 == Drop(v1)
                      IN  IF obj_left.t # "Bool" THEN VmPanic(v2)
                          ELSE CASE op = "Equal" -> Push(v2, BoolObj(obj_left.b = obj_right.b))
                                 [] op = "NotEqual" -> Push(v2, BoolObj(obj_left.b # obj_right.b))
                                 [] OTHER -> VmPanic(v2)
             ELSE VmPanic(v1)

\* VM::execute_prefix
execute_prefix(v, operator, checks) ==
    IF Len(v.stack) = 0 THEN VmPanic(v)
    ELSE LET obj == Top(v)
             v1 == Drop(v)
         IN  IF operator = "Minus" THEN
                 IF obj.t # "Int" THEN VmPanic(v1)
                 ELSE IF ~IsSome(I32Neg(obj.i, checks)) THEN VmPanic(v1)
                 ELSE Push(v1, IntObj(Unwrap(I32Neg(obj.i, checks))))
             ELSE IF obj.t = "Bool" THEN Push(v1, BoolObj(~obj.b))
             ELSE IF obj = NULL THEN Push(v1, BoolObj(TRUE))
             ELSE VmPanic(v1)

\* a faulty execute_jump, against which the execution of an If is tested: one
\* instruction more is skipped
execute_jump_one_more(v, offset) == [v EXCEPT !.jump = offset + 1]

\* VM::execute_jump
execute_jump(v, offset) == [v EXCEPT !.jump = offset]

\* a faulty execute_jump_not_truthy, against which the path of a falsy
\* condition is tested: one instruction fewer is skipped, so that the If's
\* Jump is the next instruction executed
execute_jump_not_truthy_onto_jump(v, offset) ==
    IF Len(v.stack) = 0 THEN VmPanic(v)
    ELSE IF Top(v) = FALSE_OBJ \/ Top(v) = NULL THEN execute_jump(Drop(v), offset - 1)
    ELSE Drop(v)

\* a faulty execute_jump_not_truthy, against which truthiness is tested: Int(0)
\* is taken for a falsy value
execute_jump_not_truthy_zero_falsy(v, offset) ==
    IF Len(v.stack) = 0 THEN VmPanic(v)
    ELSE IF Top(v) = FALSE_OBJ \/ Top(v) = NULL \/ Top(v) = IntObj(0)
    THEN execute_jump(Drop(v), offset)
    ELSE Drop(v)

\* VM::execute_jump_not_truthy
execute_jump_not_truthy(v, offset) ==
    IF Len(v.stack) = 0 THEN VmPanic(v)
    ELSE IF Top(v) = FALSE_OBJ \/ Top(v) = NULL THEN execute_jump(Drop(v), offset)
    ELSE Drop(v)

\* a faulty execute_array, against which the order of the elements is tested:
\* the values are kept in the order they were popped in
execute_array_unreversed(v, size) ==
    IF Len(v.stack) < size THEN VmPanic(v)
    ELSE LET n == Len(v.stack)
         IN  [v EXCEPT !.stack =
                 Append(SubSeq(@, 1, n - size),
                        ArrayObj([k \in 1..size |-> v.stack[n - k + 1]]))]

\* VM::execute_array
execute_array(v, size) ==
    IF Len(v.stack) < size THEN VmPanic(v)
    ELSE LET n == Len(v.stack)
         IN  [v EXCEPT !.stack =
                 Append(SubSeq(@, 1, n - size), ArrayObj(SubSeq(@, n - size + 1, n)))]

\* a faulty execute_index, against which the indices out of range are tested:
\* a negative index counts from the end of the array
execute_index_from_the_end(v) ==
    IF Len(v.stack) = 0 THEN VmPanic(v)
    ELSE IF Top(v).t # "Int" THEN VmPanic(Drop(v))
    ELSE IF Len(v.stack) = 1 THEN VmPanic(Drop(v))
    ELSE LET index == Top(v).i
             array == Top(Drop(v))
             v2 == Drop(Drop(v))
         IN  IF array.t # "Array" THEN VmPanic(v2)
             ELSE IF 0 <= index /\ index < Len(array.elems)
                  THEN Push(v2, array.elems[index + 1])
                  ELSE IF index < 0 /\ 0 - index <= Len(array.elems)
                  THEN Push(v2, array.elems[Len(array.elems) + index + 1])
                  ELSE Push(v2, NULL)

\* VM::execute_index
execute_index(v) ==
    IF Len(v.stack) = 0 THEN VmPanic(v)
    ELSE IF Top(v).t # "Int" THEN VmPanic(Drop(v))
    ELSE IF Len(v.stack) = 1 THEN VmPanic(Drop(v))
    ELSE LET index == Top(v).i
             array == Top(Drop(v))
             v2 == Drop(Drop(v))
         IN  IF array.t # "Array" THEN VmPanic(v2)
             ELSE IF 0 <= index /\ index < Len(array.elems)
                  THEN Push(v2, array.elems[index + 1])
                  ELSE Push(v2, NULL)

\* VM::push_frame
push_frame(v, instructions, base) ==
    [v EXCEPT !.frames = Append(@, [instructions |-> v.instructions, base |-> base]),
              !.instructions = instructions,
              !.base = base]

\* a faulty pop_frame, against which the return from a call is tested: the
\* stack is left as the callee had it
pop_frame_keeping_stack(v) ==
    IF Len(v.frames) = 0 THEN VmPanic(v)
    ELSE LET frame == v.frames[Len(v.frames)]
         IN  [v EXCEPT !.frames = SubSeq(@, 1, Len(@) - 1),
                       !.instructions = frame.instructions]

\* VM::pop_frame
pop_frame(v) ==
    IF Len(v.frames) = 0 THEN VmPanic(v)
    ELSE LET frame == v.frames[Len(v.frames)]
         IN  [v EXCEPT !.frames = SubSeq(@, 1, Len(@) - 1),
                       !.instructions = frame.instructions,
                       !.stack = IF Len(@) > frame.base THEN SubSeq(@, 1, frame.base) ELSE @]

\* the loop of execute_call pushing NULL
PushNulls(v, count) == [v EXCEPT !.stack = @ \o [k \in 1..count |-> NULL]]

\* Vec::remove(pos), pos counted from 0
Remove(s, pos) == SubSeq(s, 1, pos) \o SubSeq(s, pos + 2, Len(s))

\* a faulty execute_call, against which the refusal of a call is tested: the
\* number of arguments is not compared with the number of parameters
execute_call_unchecked(v, num_args) ==
    IF Len(v.stack) - num_args - 1 < 0 THEN VmPanic(v)
    ELSE LET func == v.stack[Len(v.stack) - num_args]
             v1 == [v EXCEPT !.stack = Remove(@, Len(@) - num_args - 1)]
         IN  IF func.t # "CompiledFunction" THEN VmPanic(v1)
             ELSE PushNulls(push_frame(v1, func.instructions, Len(v1.stack) - num_args),
                            func.num_locals)

\* VM::execute_call
execute_call(v, num_args) ==
    IF Len(v.stack) - num_args - 1 < 0 THEN VmPanic(v)
    ELSE LET func == v.stack[Len(v.stack) - num_args]
             v1 == [v EXCEPT !.stack = Remove(@, Len(@) - num_args - 1)]
         IN  IF func.t # "CompiledFunction" THEN VmPanic(v1)
             ELSE IF num_args # func.num_paras THEN VmPanic(v1)
             ELSE PushNulls(push_frame(v1, func.instructions, Len(v1.stack) - num_args),
                            func.num_locals)

\* VM::execute_return_value
execute_return_value(v) ==
    IF Len(v.stack) = 0 THEN VmPanic(v)
    ELSE Push(pop_frame(Drop(v)), Top(v))

\* VM::execute_return
execute_return(v) == Push(pop_frame(v), NULL)

\* VM::execute, Code::Pop
execute_pop(v) ==
    IF Len(v.stack) = 0 THEN [v EXCEPT !.last_popped = None]
    ELSE [Drop(v) EXCEPT !.last_popped = Some(Top(v))]

\* VM::execute, Code::SetGlobal
execute_set_global(v, index) ==
    IF Len(v.stack) = 0 THEN VmPanic(v)
    ELSE [Drop(v) EXCEPT !.globals = MapInsert(@, index, Top(v))]

\* VM::execute, Code::GetGlobal
execute_get_global(v, index) ==
    IF index \notin DOMAIN v.globals THEN VmPanic(v)
    ELSE Push(v, v.globals[index])

\* VM::execute, Code::SetLocal
execute_set_local(v, index) ==
    IF v.base + index >= Len(v.stack) THEN VmPanic(v)
    ELSE [v EXCEPT !.stack = SwapRemove(@, v.base + index)]

\* VM::execute, Code::GetLocal
execute_get_local(v, index) ==
    IF v.base + index >= Len(v.stack) THEN VmPanic(v)
    ELSE Push(v, v.stack[v.base + index + 1])

\* VM::execute
execute(v, c, checks) ==
    CASE c.op = "Constant" -> Push(v, c.obj)
      [] c.op \in {"Add", "Sub", "Mul", "Div"} -> execute_arithmetic(v, c.op, checks)
      [] c.op \in {"Equal", "NotEqual", "GreaterThan", "LessThan"} -> execute_comparison(v, c.op)
      [] c.op = "True" -> Push(v, TRUE_OBJ)
      [] c.op = "False" -> Push(v, FALSE_OBJ)
      [] c.op \in {"Minus", "Bang"} -> execute_prefix(v, c.op, checks)
      [] c.op = "Pop" -> execute_pop(v)
      [] c.op = "JumpNotTruthy" -> execute_jump_not_truthy(v, c.n)
      [] c.op = "Jump" -> execute_jump(v, c.n)
      [] c.op = "Null" -> Push(v, NULL)
      [] c.op = "SetGlobal" -> execute_set_global(v, c.n)
      [] c.op = "GetGlobal" -> execute_get_global(v, c.n)
      [] c.op = "Array" -> execute_array(v, c.n)
      [] c.op = "Index" -> execute_index(v)
      [] c.op = "ReturnValue" -> execute_return_value(v)
      [] c.op = "Return" -> execute_return(v)
      [] c.op = "Call" -> execute_call(v, c.n)
      [] c.op = "SetLocal" -> execute_set_local(v, c.n)
      [] c.op = "GetLocal" -> execute_get_local(v, c.n)

\* VM::run, one turn of the loop: self.instructions.pop() gave Some(code)
run_step(v, checks) ==
    LET c == Head(v.instructions)
        v1 == [v EXCEPT !.instructions = Tail(@)]
    IN  IF v.jump = 0 THEN execute(v1, c, checks) ELSE [v1 EXCEPT !.jump = @ - 1]

\* VM::run, lines 57-60: the triple returned once the loop has ended
run_result(v) ==
    [top |-> IF Len(v.stack) = 0 THEN NULL ELSE Top(v),
     last_popped |-> v.last_popped,
     globals |-> v.globals]

\* ------------------------------------------------------------------------
\* object.rs: Environment, and the objects only the evaluator makes
\* ------------------------------------------------------------------------

\* Object::Return
ReturnObj(obj) == [t |-> "Return", obj |-> obj]

\* Object::Function
FunctionObj(parameters, body, env) ==
    [t |-> "Function", parameters |-> parameters, body |-> body, env |-> env]

\* Environment::new
Environment_new == [env |-> EmptyGlobals, outer |-> None]

\* Environment::init
Environment_init(outer) == [env |-> EmptyGlobals, outer |-> Some(outer)]

RECURSIVE Environment_get(_, _)
\* Environment::get: Some(value), or None where the code panics (it never returns None)
Environment_get(e, key) ==
    IF key \in DOMAIN e.env THEN Some(e.env[key])
    ELSE IF IsSome(e.outer) THEN Environment_get(Unwrap(e.outer), key)
    ELSE None

\* Environment::set
Environment_set(e, key, value) == [e EXCEPT !.env = MapInsert(@, key, value)]

\* ------------------------------------------------------------------------
\* evaluator.rs: Evaluator.  An eval_* operator yields the object returned,
\* the environment it leaves behind (the &mut env) and whether it panicked.
\* depth counts the eval_call activations on the native stack.
\* ------------------------------------------------------------------------

Evaluated(obj, env) == [obj |-> obj, env |-> env, fatal |-> FALSE]

\* a panic inside the evaluator, or the native stack running out
EvalPanic(env) == [obj |-> NULL, env |-> env, fatal |-> TRUE]

RECURSIVE eval_statement(_, _, _, _)
RECURSIVE eval_block_loop(_, _, _, _, _)
RECURSIVE eval_expression(_, _, _, _)
RECURSIVE bind_arguments(_, _, _, _, _, _)

\* eval_block, the body of its loop once the statement has been evaluated to r
eval_block_next(r, rest, depth, checks) ==
    IF r.fatal THEN r
    ELSE IF r.obj.t = "Return" THEN r
    ELSE eval_block_loop(rest, r.obj, r.env, depth, checks)

\* the loop of eval_block over the statements left, result being the last value
eval_block_loop(stmts, result, env, depth, checks) ==
    IF stmts = << >> THEN Evaluated(result, env)
    ELSE eval_block_next(eval_statement(Head(stmts), env, depth, checks), Tail(stmts),
                         depth, checks)

\* Evaluator::eval_block
eval_block(block, env, depth, checks) ==
    IF block.s # "Block" THEN EvalPanic(env)
    ELSE eval_block_loop(block.stmts, NULL, env, depth, checks)

\* eval_prefix once the operand has been evaluated to r
eval_prefix_apply(op, r, checks) ==
    IF r.fatal THEN r
    ELSE IF op = "!" THEN
        Evaluated(IF r.obj = TRUE_OBJ THEN FALSE_OBJ
                  ELSE IF r.obj = FALSE_OBJ THEN TRUE_OBJ
                  ELSE IF r.obj = NULL THEN TRUE_OBJ
                  ELSE FALSE_OBJ, r.env)
    ELSE IF op = "-" THEN
        IF r.obj.t # "Int" THEN EvalPanic(r.env)
        ELSE IF ~IsSome(I32Neg(r.obj.i, checks)) THEN EvalPanic(r.env)
        ELSE Evaluated(IntObj(Unwrap(I32Neg(r.obj.i, checks))), r.env)
    ELSE EvalPanic(r.env)

\* Evaluator::eval_prefix
eval_prefix(op, expr, env, depth, checks) ==
    eval_prefix_apply(op, eval_expression(expr, env, depth, checks), checks)

\* the arithmetic of eval_infix on two Ints: Option<i32>, None where it panics
eval_infix_arith(op, l, r, checks) ==
    CASE op = "+" -> I32Add(l, r, checks)
      [] op = "-" -> I32Sub(l, r, checks)
      [] op = "*" -> I32Mul(l, r, checks)
      [] op = "/" -> I32Div(l, r)

\* an Option<i32> as the Option<Object> holding the Int
SomeInt(value) == IF IsSome(value) THEN Some(IntObj(Unwrap(value))) ELSE None

\* eval_infix on two Ints: Option<Object>, None where it panics
eval_infix_int(op, l, r, checks) ==
    CASE op \in {"+", "-", "*", "/"} -> SomeInt(eval_infix_arith(op, l, r, checks))
      [] op = "<" -> Some(BoolObj(l < r))
      [] op = ">" -> Some(BoolObj(l > r))
      [] op = "==" -> Some(BoolObj(l = r))
      [] op = "!=" -> Some(BoolObj(l # r))
      [] OTHER -> None

\* eval_infix on two Bools: Option<Object>, None where it panics
eval_infix_bool(op, l, r) ==
    CASE op = "==" -> Some(BoolObj(l = r))
      [] op = "!=" -> Some(BoolObj(l # r))
      [] OTHER -> None

\* eval_infix on the two objects: Option<Object>, None where it panics
eval_infix_objects(op, left, right, checks) ==
    IF left.t = "Int" /\ right.t = "Int" THEN eval_infix_int(op, left.i, right.i, checks)
    ELSE IF left.t = "Bool" /\ right.t = "Bool" THEN eval_infix_bool(op, left.b, right.b)
    ELSE None

\* an Option<Object> as the result of an eval_* call in env
EvaluatedOr(value, env) == IF IsSome(value) THEN Evaluated(Unwrap(value), env) ELSE EvalPanic(env)

\* eval_infix once both operands have been evaluated, to l and to r
eval_infix_apply(op, l, r, checks) ==
    IF r.fatal THEN r ELSE EvaluatedOr(eval_infix_objects(op, l.obj, r.obj, checks), r.env)

\* eval_infix once the left operand has been evaluated to l
eval_infix_right(op, l, right, depth, checks) ==
    IF l.fatal THEN l
    ELSE eval_infix_apply(op, l, eval_expression(right, l.env, depth, checks), checks)

\* Evaluator::eval_infix
eval_infix(op, left, right, env, depth, checks) ==
    eval_infix_right(op, eval_expression(left, env, depth, checks), right, depth, checks)

\* eval_if once the condition has been evaluated to c
eval_if_branch(c, consequence, alternative, depth, checks) ==
    IF c.fatal THEN c
    ELSE eval_block(IF c.obj = NULL \/ c.obj = FALSE_OBJ THEN alternative ELSE consequence,
                    c.env, depth, checks)

\* Evaluator::eval_if
eval_if(condition, consequence, alternative, env, depth, checks) ==
    eval_if_branch(eval_expression(condition, env, depth, checks), consequence, alternative,
                   depth, checks)

\* the environments of a call: the caller's, the callee's extended one, and
\* whether binding the arguments panicked
Bound(env, extended, fatal) == [env |-> env, extended |-> extended, fatal |-> fatal]

\* bind_arguments once the argument has been evaluated to a
bind_next(a, parameters, arguments, extended, depth, checks) ==
    IF a.fatal THEN Bound(a.env, extended, TRUE)
    ELSE bind_arguments(Tail(parameters), Tail(arguments), a.env,
                        Environment_set(extended, Head(parameters).name, a.obj),
                        depth, checks)

\* the loop of eval_call over parameters.zip(arguments)
bind_arguments(parameters, arguments, env, extended, depth, checks) ==
    IF parameters = << >> \/ arguments = << >> THEN Bound(env, extended, FALSE)
    ELSE IF Head(parameters).e # "Ident" THEN Bound(env, extended, TRUE)
    ELSE bind_next(eval_expression(Head(arguments), env, depth, checks), parameters,
                   arguments, extended, depth, checks)

\* eval_call once the body has been evaluated to result
eval_call_result(result, env) ==
    IF result.fatal THEN EvalPanic(env)
    ELSE IF result.obj.t = "Return" THEN Evaluated(result.obj.obj, env)
    ELSE Evaluated(result.obj, env)

\* eval_call once the arguments have been bound
eval_call_body(body, b, depth, checks) ==
    IF b.fatal THEN EvalPanic(b.env)
    ELSE eval_call_result(eval_block(body, b.extended, depth + 1, checks), b.env)

\* eval_call once the callee has been evaluated to f
eval_call_bind(f, arguments, depth, checks) ==
    IF f.fatal THEN f
    ELSE IF f.obj.t # "Function" THEN EvalPanic(f.env)
    ELSE IF depth >= MaxEvalDepth THEN EvalPanic(f.env)
    ELSE eval_call_body(f.obj.body,
                        bind_arguments(f.obj.parameters, arguments, f.env,
                                       Environment_init(f.obj.env), depth, checks),
                        depth, checks)

\* Evaluator::eval_call
eval_call(function, arguments, env, depth, checks) ==
    eval_call_bind(eval_expression(function, env, depth, checks), arguments, depth, checks)

\* an Option<i32> as the Int the literal evaluates to (unwrap panics on None)
eval_int(value, env) == IF IsSome(value) THEN Evaluated(IntObj(Unwrap(value)), env) ELSE EvalPanic(env)

\* Evaluator::eval_expression (it has no arm for a string or an array literal)
eval_expression(expr, env, depth, checks) ==
    CASE expr.e = "Int" -> eval_int(from_str_radix(expr.digits), env)
      [] expr.e = "Bool" -> Evaluated(IF expr.v = "true" THEN TRUE_OBJ ELSE FALSE_OBJ, env)
      [] expr.e = "Prefix" -> eval_prefix(expr.operator, expr.expr, env, depth, checks)
      [] expr.e = "Infix" ->
             eval_infix(expr.operator, expr.left, expr.right, env, depth, checks)
      [] expr.e = "If" ->
             eval_if(expr.condition, expr.consequence, expr.alternative, env, depth, checks)
      [] expr.e = "Ident" -> EvaluatedOr(Environment_get(env, expr.name), env)
      [] expr.e = "Function" -> Evaluated(FunctionObj(expr.parameters, expr.body, env), env)
      [] expr.e = "Call" -> eval_call(expr.function, expr.arguments, env, depth, checks)
      [] OTHER -> EvalPanic(env)

\* eval_statement on a return statement once its operand has been evaluated to r
eval_return(r) == IF r.fatal THEN r ELSE Evaluated(ReturnObj(r.obj), r.env)

\* eval_statement on a let statement once its expression has been evaluated to r
eval_let(name, r) ==
    IF r.fatal THEN r ELSE Evaluated(NULL, Environment_set(r.env, name, r.obj))

\* Evaluator::eval_statement
eval_statement(stmt, env, depth, checks) ==
    CASE stmt.s = "Expr" -> eval_expression(stmt.expr, env, depth, checks)
      [] stmt.s = "Return" -> eval_return(eval_expression(stmt.expr, env, depth, checks))
      [] stmt.s = "Let" /\ stmt.ident.e = "Ident" ->
             eval_let(stmt.ident.name, eval_expression(stmt.expr, env, depth, checks))
      [] OTHER -> EvalPanic(env)

\* what the evaluator-mode REPL has done with a line: the objects yielded (each
\* is printed), the environment kept, and whether the evaluator panicked
Yielded(objs, env, fatal) == [yielded |-> objs, env |-> env, fatal |-> fatal]

RECURSIVE evaluator_loop(_, _, _, _)
\* Evaluator::next once the statement has been evaluated to r
evaluator_next(r, rest, env, objs, checks) ==
    IF r.fatal THEN Yielded(objs, env, TRUE)
    ELSE IF r.obj.t = "Return" THEN Yielded(Append(objs, r.obj.obj), r.env, FALSE)
    ELSE evaluator_loop(rest, r.env, Append(objs, r.obj), checks)

\* the for loop of main.rs:54-57 over Evaluator::next
evaluator_loop(stmts, env, objs, checks) ==
    IF stmts = << >> THEN Yielded(objs, env, FALSE)
    ELSE evaluator_next(eval_statement(Head(stmts), env, 0, checks), Tail(stmts), env, objs,
                        checks)

RECURSIVE Display(_)
RECURSIVE DisplayElements(_)
\* the loop of Object's Display over a non-empty array, less the last ", " the
\* two String::pop calls remove
DisplayElements(elems) ==
    IF Len(elems) = 1 THEN Display(elems[1])
    ELSE Display(Head(elems)) \o ", " \o DisplayElements(Tail(elems))

\* Object's Display (on an empty array the two pops empty the text "[")
Display(obj) ==
    CASE obj.t = "Int" -> ToString(obj.i)
      [] obj.t = "Str" -> obj.s
      [] obj.t = "Bool" -> IF obj.b THEN "true" ELSE "false"
      [] obj.t = "Null" -> "Null"
      [] obj.t = "Return" -> Display(obj.obj)
      [] obj.t = "Array" ->
             IF obj.elems = << >> THEN "]" ELSE "[" \o DisplayElements(obj.elems) \o "]"
      [] obj.t = "Function" -> "function"
      [] obj.t = "CompiledFunction" -> "compiled function"

\* ------------------------------------------------------------------------
\* The lines typed at the prompt, as the statements the parser yields
\* ------------------------------------------------------------------------

\* a one-digit integer literal
Num(d) == EInt(<< d >>)

Ident_a == EIdent("a")

Ident_b == EIdent("b")

Ident_x == EIdent("x")

\* if (false) { 1 }: an expression whose value is Null
NullExpr == EIf(EBool("false"), SBlock(<< SExpr(Num("1")) >>), SBlock(<< >>))

\* the blocks used as branches of the generated if expressions
Blocks ==
    { SBlock(<< >>),
      SBlock(<< SExpr(Num("1")) >>),
      SBlock(<< SExpr(Num("1")), SExpr(Num("2")) >>),
      SBlock(<< SExpr(EIf(EBool("true"), SBlock(<< SExpr(Num("3")) >>),
                          SBlock(<< SExpr(Num("4")) >>))) >>),
      SBlock(<< SExpr(EIf(EBool("false"), SBlock(<< SExpr(Num("3")) >>), SBlock(<< >>))) >> ) }

\* blocks that bind a name
LetBlocks ==
    { SBlock(<< SLet(Ident_x, Num("5")) >>),
      SBlock(<< SLet(Ident_x, Num("5")), SExpr(Ident_x) >>) }

\* blocks that only a function body may hold
ReturnBlocks == { SBlock(<< SReturn(Num("7")) >>) }

Conditions == { EBool("true"), EBool("false"), Num("0"), NullExpr }

\* if (c) { A } else { B }; for every condition and pair of blocks, and with a
\* branch that binds a name
IfLines ==
    { << SExpr(EIf(c, A, B)) >> : c \in Conditions, A \in Blocks, B \in Blocks }
        \cup { << SExpr(EIf(c, A, SBlock(<< >>))) >> :
                   c \in {EBool("true"), EBool("false")}, A \in LetBlocks }
        \cup { << SExpr(EIf(c, SBlock(<< SExpr(Num("1")) >>), B)) >> :
                   c \in {EBool("true"), EBool("false")}, B \in LetBlocks }

\* fn() { if (c) { A } else { B }; 9 }(); with branches that may return
FnIfLines ==
    { << SExpr(ECall(EFunction(<< >>, SBlock(<< SExpr(EIf(c, A, B)), SExpr(Num("9")) >>)),
                     << >>)) >> :
        c \in {EBool("true"), EBool("false")},
        A \in Blocks \cup LetBlocks \cup ReturnBlocks,
        B \in Blocks \cup LetBlocks \cup ReturnBlocks }

InfixOps == {"+", "-", "*", "/", "==", "!=", ">", "<"}

\* l op r; over a few operands of every type
InfixLines ==
    { << SExpr(EInfix(o, l, r)) >> :
        o \in InfixOps,
        l \in {Num("1"), EBool("true"), EStr("a")},
        r \in {Num("2"), Num("0"), EBool("true"), EStr("b")} }

\* fn(a) { a; }
FnIdentity == EFunction(<< Ident_a >>, SBlock(<< SExpr(Ident_a) >>))

\* fn(a) { a(a) }
FnSelfApply == EFunction(<< Ident_a >>, SBlock(<< SExpr(ECall(Ident_a, << Ident_a >>)) >>))

\* fn() { 1 }
FnOne == EFunction(<< >>, SBlock(<< SExpr(Num("1")) >>))

\* the programs exercising let, arrays, prefix operators and calls
OtherLines ==
    { << SExpr(EPrefix("-", Num("1"))) >>,
      << SExpr(EPrefix("!", EBool("true"))) >>,
      << SExpr(EPrefix("!", NullExpr)) >>,
      << SExpr(EPrefix("!", Num("1"))) >>,
      << SExpr(EArray(<< Num("1"), Num("2") >>)) >>,
      << SExpr(EInfix("[", EArray(<< Num("1"), Num("2") >>), Num("1"))) >>,
      << SExpr(EInfix("[", EArray(<< Num("1"), Num("2") >>), Num("2"))) >>,
      << SExpr(EInfix("[", EArray(<< Num("1"), Num("2") >>), EPrefix("-", Num("1")))) >>,
      << SExpr(EInfix("[", Num("1"), Num("1"))) >>,
      << SExpr(EInfix("[", EArray(<< Num("1"), Num("2") >>), Num("0"))) >>,
      << SExpr(EInfix("[", EArray(<< Num("1"), Num("2") >>), EBool("true"))) >>,
      << SExpr(EInfix("[", EArray(<< Num("1"), Num("2") >>), NullExpr)) >>,
      << SExpr(EInfix("[", EStr("a"), Num("0"))) >>,
      << SExpr(EArray(<< EBool("true"), Num("1"), EStr("a") >>)) >>,
      << SExpr(EArray(<< Num("1"), EIf(EBool("true"), SBlock(<< >>), SBlock(<< >>)) >>)) >>,
      << SExpr(EInfix("+", Num("5"), EIf(EBool("true"), SBlock(<< SLet(Ident_x, Num("1")) >>),
                                          SBlock(<< >>)))) >>,
      << SLet(Ident_a, Num("1")) >>,
      << SLet(Ident_b, Num("2")) >>,
      << SLet(Ident_a, Num("1")), SExpr(EInfix("+", Ident_a, Num("1"))) >>,
      << SLet(Ident_a, Num("1")), SLet(Ident_a, Num("2")), SExpr(Ident_a) >>,
      << SExpr(Num("1")), SLet(Ident_a, Num("2")) >>,
      << SExpr(Num("1")), SExpr(Num("2")) >>,
      << SExpr(Ident_a) >>,
      << SExpr(Ident_x) >>,
      << SExpr(EInfix("+", Ident_a, Ident_b)) >>,
      << SLet(Ident_b, EIf(Ident_a, SBlock(<< SExpr(Num("1")) >>), SBlock(<< >>))) >>,
      << SReturn(Num("1")) >>,
      << SExpr(EInt(<< "2", "1", "4", "7", "4", "8", "3", "6", "4", "8" >>)) >>,
      << SExpr(EInfix("+", EInt(<< "2", "1", "4", "7", "4", "8", "3", "6", "4", "7" >>),
                      Num("1"))) >>,
      << SExpr(ECall(EFunction(<< >>, SBlock(<< SReturn(Num("1")) >>)), << >>)) >>,
      << SExpr(ECall(FnOne, << >>)) >>,
      << SExpr(ECall(EFunction(<< >>, SBlock(<< >>)), << >>)) >>,
      << SExpr(ECall(FnIdentity, << Num("1") >>)) >>,
      << SExpr(ECall(FnIdentity, << >>)) >>,
      << SExpr(ECall(Num("1"), << >>)) >>,
      << SExpr(FnOne) >>,
      << SLet(Ident_a, Num("1")),
         SLet(Ident_b, ECall(EFunction(<< >>, SBlock(<< SLet(Ident_a, Num("2")),
                                                         SExpr(Ident_a) >>)), << >>)),
         SExpr(EInfix("+", Ident_a, Ident_b)) >>,
      << SExpr(ECall(EFunction(<< >>, SBlock(<< SLet(Ident_a, Num("1")) >>)), << >>)),
         SExpr(Num("5")) >>,
      << SExpr(ECall(EFunction(<< Ident_x >>, SBlock(<< SLet(Ident_a, Num("1")) >>)),
                     << Num("5") >>)) >>,
      << SExpr(ECall(EFunction(<< Ident_a, Ident_b >>,
                               SBlock(<< SExpr(EInfix("-", Ident_a, Ident_b)) >>)),
                     << Num("5"), Num("3") >>)) >>,
      << SExpr(ECall(EFunction(<< Ident_x >>,
                               SBlock(<< SExpr(ECall(FnOne, << >>)), SExpr(Ident_x) >>)),
                     << Num("5") >>)) >>,
      << SExpr(ECall(EFunction(<< Ident_x >>,
                               SBlock(<< SLet(Ident_b, ECall(FnIdentity, << Num("2") >>)),
                                         SExpr(EInfix("+", Ident_x, Ident_b)) >>)),
                     << Num("5") >>)) >>,
      << SExpr(ECall(EFunction(<< Ident_x >>, SBlock(<< SExpr(ECall(Ident_x, << >>)) >>)),
                     << FnOne >>)) >>,
      << SExpr(ECall(FnSelfApply, << FnSelfApply >>)) >>,
      << SExpr(ECall(EFunction(<< >>,
                               SBlock(<< SExpr(ECall(EFunction(<< >>,
                                                SBlock(<< SLet(Ident_a, Num("1")),
                                                          SExpr(Ident_a) >>)), << >>)) >>)),
                     << >>)) >>,
      << SLet(Ident_a, FnIdentity) >>,
      << SExpr(EInfix("/", EPrefix("-", Num("7")), Num("2"))) >>,
      << SExpr(EInfix("/", Num("7"), EPrefix("-", Num("2")))) >>,
      << SExpr(EInfix("/", EInfix("-", EPrefix("-", EInt(<< "2", "1", "4", "7", "4", "8", "3",
                                                             "6", "4", "7" >>)), Num("1")),
                      EPrefix("-", Num("1")))) >>,
      << SLet(Ident_a, Ident_a) >>,
      << SLet(Ident_a, EInfix("+", Ident_a, Num("1"))) >>,
      << SLet(Ident_a, EFunction(<< >>, SBlock(<< SExpr(Ident_a) >>))) >>,
      << SExpr(ECall(EFunction(<< Ident_a, Ident_b >>,
                               SBlock(<< SExpr(ECall(EFunction(<< >>,
                                                SBlock(<< SExpr(Ident_b) >>)), << >>)) >>)),
                     << Num("1"), Num("2") >>)) >>,
      << SExpr(ECall(Ident_a, << Num("3") >>)) >>,
      << SExpr(ECall(Ident_a, << Ident_a >>)) >> }

\* l op r where an operand is Null, an array or a function
MixedInfixLines ==
    { << SExpr(EInfix(o, p[1], p[2])) >> :
        o \in {"+", "==", "!=", ">", "<"},
        p \in ({NullExpr, EArray(<< Num("1"), Num("2") >>), FnOne}
                  \X {Num("2"), EBool("true"), EStr("b")})
              \cup ({Num("1")} \X {NullExpr, EArray(<< Num("1"), Num("2") >>), FnOne})
              \cup {<< Num("2"), Num("2") >>,
                    << NullExpr, NullExpr >>,
                    << EArray(<< Num("1") >>), EArray(<< Num("1") >>) >>,
                    << FnOne, FnOne >>} }

Lines == IfLines \cup FnIfLines \cup InfixLines \cup MixedInfixLines \cup OtherLines

\* ------------------------------------------------------------------------
\* main.rs: the REPL loop.  One session is followed in both modes at once: the
\* lines typed are given to the vm-mode REPL, which runs instruction by
\* instruction, and to the evaluator-mode REPL, which evaluates a line in one
\* step when it is read.
\* ------------------------------------------------------------------------

\* what the run loop has done in one instruction vector: the vector as it was
\* entered, the positions (from 1) whose instruction it executed, the
\* JumpNotTruthy executions (position and whether the value popped was
\* truthy), the stack length before the callee and its arguments were pushed,
\* and the callee's slots (arguments, then Nulls) as the call left them
NewHist(instructions, depth, entry) ==
    [instrs |-> instructions, executed |-> {}, taken |-> {}, depth |-> depth,
     entry |-> entry]

\* the instructions of vector k of hist not yet fetched
Remaining(k) == IF k = Len(hist) THEN vm.instructions ELSE vm.frames[k].instructions

\* how many instructions of vector k of hist the run loop has fetched
Fetched(k) == Len(hist[k].instrs) - Len(Remaining(k))

\* the REPL before the first line is read
ReplInit ==
    /\ pc = "read"
    /\ overflow_checks = "unknown"
    /\ symbol_table = NewSymbolTable(None)
    /\ globals = EmptyGlobals
    /\ input = << >>
    /\ code = << >>
    /\ sym_table = NewSymbolTable(None)
    /\ vm = VM_new(<< >>, EmptyGlobals)
    /\ printed = None
    /\ nlines = 0
    /\ eval_pc = "read"
    /\ environment = Environment_new
    /\ yielded = << >>
    /\ hist = << >>
    /\ returns = << >>

\* no lexer or parser under test
FrontInit ==
    /\ lexer = Lexer_new(<< >>)
    /\ lex_pc = "next"
    /\ tokens = << >>
    /\ parser = Parser_new(<< >>)
    /\ parse_pc = "next"
    /\ statements = << >>

Init ==
    /\ ReplInit
    /\ table = NewSymbolTable(None)
    /\ allocated = << >>
    /\ FrontInit

\* main.rs:53-57: the evaluator-mode REPL takes the line; ev is what the
\* evaluator does with it in a build with (ev[TRUE]) and without overflow checks
EvalLine(ev, build) ==
    /\ overflow_checks' = IF eval_pc = "read" /\ ev[TRUE] # ev[FALSE]
                          THEN build ELSE overflow_checks
    /\ IF eval_pc = "read"
       THEN /\ yielded' = ev[build = "on"].yielded
            /\ environment' = ev[build = "on"].env
            /\ eval_pc' = IF ev[build = "on"].fatal THEN "fatal" ELSE "read"
       ELSE UNCHANGED evalVars

\* main.rs:45-47: the vm-mode REPL takes the line; c is the compiler after run
CompileLine(c) ==
    IF c.fatal
    THEN /\ pc' = "fatal"
         /\ UNCHANGED << code, sym_table, vm, hist >>
    ELSE /\ pc' = "run"
         /\ code' = c.instructions
         /\ sym_table' = c.symbol_table
         /\ vm' = VM_new(c.instructions, globals)
         /\ hist' = << NewHist(c.instructions, 0, << >>) >>

\* main.rs:40-57: a line is read and parsed, and each mode takes it
ReadLine(line, build) ==
    /\ pc = "read"
    /\ nlines < MaxLines
    /\ overflow_checks \in {"unknown", build}
    /\ nlines' = nlines + 1
    /\ input' = line
    /\ EvalLine([checks \in BOOLEAN |-> evaluator_loop(line, environment, << >>, checks)],
                build)
    /\ CompileLine(compiler_run(Compiler_new(line, symbol_table)))
    /\ UNCHANGED << symbol_table, globals, printed, returns, symVars, frontVars >>

\* VM::run:46-52 with the skip-counter positive: the instruction is passed over
RunSkip ==
    /\ pc = "run"
    /\ vm.instructions # << >>
    /\ vm.jump > 0
    /\ vm' = run_step(vm, TRUE)
    /\ UNCHANGED << pc, overflow_checks, symbol_table, globals, printed, nlines, hist,
                    returns, lineVars, evalVars, symVars, frontVars >>

\* hist after the instruction c at the head of the current vector has executed
Executed(c) ==
    [hist EXCEPT ![Len(hist)].executed = @ \cup {Fetched(Len(hist)) + 1},
                 ![Len(hist)].taken =
                     IF c.op = "JumpNotTruthy" /\ vm.stack # << >>
                     THEN @ \cup {[pos |-> Fetched(Len(hist)) + 1,
                                   truthy |-> Top(vm) # FALSE_OBJ /\ Top(vm) # NULL]}
                     ELSE @]

\* hist and returns once instruction c has taken the VM to v and hist to h
Recorded(c, v, h) ==
    IF v.fatal THEN hist' = h /\ UNCHANGED returns
    ELSE IF Len(v.frames) > Len(vm.frames)
    THEN /\ hist' = Append(h, NewHist(v.instructions, Len(vm.stack) - c.n - 1,
                                      SubSeq(v.stack, v.base + 1, Len(v.stack))))
         /\ UNCHANGED returns
    ELSE IF Len(v.frames) < Len(vm.frames)
    THEN /\ hist' = SubSeq(h, 1, Len(h) - 1)
         /\ returns' = Append(returns, [depth |-> h[Len(h)].depth,
                                        stack_len |-> Len(v.stack),
                                        frames |-> Len(v.frames)])
    ELSE /\ hist' = h
         /\ UNCHANGED returns

\* the step of RunExecute; step is the VM after the instruction in a build with
\* (step[TRUE]) and without overflow checks
Execute(step, build) ==
    /\ vm' = step[build = "on"]
    /\ overflow_checks' = IF step[TRUE] = step[FALSE] THEN overflow_checks ELSE build
    /\ pc' = IF step[build = "on"].fatal THEN "fatal" ELSE "run"
    /\ Recorded(Head(vm.instructions), step[build = "on"], Executed(Head(vm.instructions)))

\* VM::run:46-52 with the skip-counter 0: the instruction is executed, in a build
\* with or without overflow checks (the first overflow shows which)
RunExecute(build) ==
    /\ pc = "run"
    /\ vm.instructions # << >>
    /\ vm.jump = 0
    /\ (Head(vm.instructions).op = "Call" => Len(vm.frames) < MaxFrames)
    /\ overflow_checks \in {"unknown", build}
    /\ Execute([checks \in BOOLEAN |-> run_step(vm, checks)], build)
    /\ UNCHANGED << symbol_table, globals, printed, nlines, lineVars, evalVars, symVars, frontVars >>

\* a faulty end of a line, against which the state kept between lines is
\* tested: the globals the run returned are dropped
RunReturn_dropping_globals ==
    /\ pc = "run"
    /\ vm.instructions = << >>
    /\ printed' = Some(Display(run_result(vm).top))
    /\ symbol_table' = sym_table
    /\ globals' = EmptyGlobals
    /\ pc' = "read"
    /\ input' = << >>
    /\ code' = << >>
    /\ sym_table' = NewSymbolTable(None)
    /\ vm' = VM_new(<< >>, EmptyGlobals)
    /\ yielded' = << >>
    /\ hist' = << >>
    /\ returns' = << >>
    /\ UNCHANGED << overflow_checks, nlines, eval_pc, environment, symVars, frontVars >>

\* VM::run:54-60 and main.rs:48-51: the loop ends, the result is printed, the
\* symbol table and the globals are kept for the next line, and what belongs to
\* the line goes out of scope
RunReturn ==
    /\ pc = "run"
    /\ vm.instructions = << >>
    /\ printed' = Some(Display(run_result(vm).top))
    /\ symbol_table' = sym_table
    /\ globals' = run_result(vm).globals
    /\ pc' = "read"
    /\ input' = << >>
    /\ code' = << >>
    /\ sym_table' = NewSymbolTable(None)
    /\ vm' = VM_new(<< >>, EmptyGlobals)
    /\ yielded' = << >>
    /\ hist' = << >>
    /\ returns' = << >>
    /\ UNCHANGED << overflow_checks, nlines, eval_pc, environment, symVars, frontVars >>

Next ==
    \/ \E line \in Lines, build \in {"on", "off"} : ReadLine(line, build)
    \/ RunSkip
    \/ \E build \in {"on", "off"} : RunExecute(build)
    \/ RunReturn

Spec == Init /\ [][Next]_vars

\* ------------------------------------------------------------------------
\* code.rs: one SymbolTable under a sequence of define calls.  table is the
\* table, global (no outer table) or local; allocated lists the indices of the
\* Symbols the calls returned, in the order of the calls.
\* ------------------------------------------------------------------------

\* the names defined
Names == {"a", "b", "x"}

\* SymbolTable::new(None) or SymbolTable::new(Some(outer))
InitSym ==
    /\ ReplInit
    /\ table \in {NewSymbolTable(None), NewSymbolTable(Some(NewSymbolTable(None)))}
    /\ allocated = << >>
    /\ FrontInit

\* table.define(name)
Define(name) ==
    /\ table.num_definitions < MaxDefs
    /\ table' = define(table, name).table
    /\ allocated' = Append(allocated, define(table, name).symbol.index)
    /\ UNCHANGED << pc, overflow_checks, symbol_table, globals, vm, printed, nlines, hist,
                    returns, lineVars, evalVars, frontVars >>

NextSym == \E name \in Names : Define(name)

SpecSym == InitSym /\ [][NextSym]_vars

\* ------------------------------------------------------------------------
\* code.rs and compiler.rs:36-49: a chain of SymbolTables under define calls on
\* the current table, enter_scope and leave_scope.  table is the current table;
\* allocated lists, for each table of the chain from the outermost to the
\* current one, the names its define calls were given, in the order of the calls.
\* ------------------------------------------------------------------------

RECURSIVE Defined(_)
\* how many define calls the tables of the chain have had
Defined(log) == IF log = << >> THEN 0 ELSE Len(Head(log)) + Defined(Tail(log))

InitScopes ==
    /\ ReplInit
    /\ table = NewSymbolTable(None)
    /\ allocated = << << >> >>
    /\ FrontInit

\* self.symbol_table.define(name)
DefineInScope(name) ==
    /\ Defined(allocated) < MaxDefs
    /\ table' = define(table, name).table
    /\ allocated' = [allocated EXCEPT ![Len(allocated)] = Append(@, name)]
    /\ UNCHANGED << pc, overflow_checks, symbol_table, globals, vm, printed, nlines, hist,
                    returns, lineVars, evalVars, frontVars >>

\* Compiler::enter_scope, the symbol table
EnterScope ==
    /\ Len(allocated) < MaxScopes
    /\ table' = NewSymbolTable(Some(table))
    /\ allocated' = Append(allocated, << >>)
    /\ UNCHANGED << pc, overflow_checks, symbol_table, globals, vm, printed, nlines, hist,
                    returns, lineVars, evalVars, frontVars >>

\* Compiler::leave_scope, the symbol table
LeaveScope ==
    /\ Len(allocated) > 1
    /\ table' = Unwrap(get_outer(table))
    /\ allocated' = SubSeq(allocated, 1, Len(allocated) - 1)
    /\ UNCHANGED << pc, overflow_checks, symbol_table, globals, vm, printed, nlines, hist,
                    returns, lineVars, evalVars, frontVars >>

NextScopes ==
    \/ \E name \in Names : DefineInScope(name)
    \/ EnterScope
    \/ LeaveScope

SpecScopes == InitScopes /\ [][NextScopes]_vars

\* ------------------------------------------------------------------------
\* lexer.rs: a Lexer over an input, under calls of next.  tokens lists what the
\* calls have returned; the lexer is left alone once a call has returned None.
\* ------------------------------------------------------------------------

\* the chars inputs are made of: a digit, a letter, operators, a blank and a
\* char that is not of the language
Chars == { "1", "a", "=", "!", "+", " ", "@" }

Inputs == UNION { [1..n -> Chars] : n \in 0..MaxInput }

InitLex ==
    /\ ReplInit
    /\ table = NewSymbolTable(None)
    /\ allocated = << >>
    /\ lexer \in { Lexer_new(chars) : chars \in Inputs }
    /\ lex_pc = "next"
    /\ tokens = << >>
    /\ parser = Parser_new(<< >>)
    /\ parse_pc = "next"
    /\ statements = << >>

\* the step of LexNext; r is what next comes to in a build with (r[TRUE]) and
\* without overflow checks
LexStep(r, build) ==
    /\ overflow_checks' = IF r[TRUE] # r[FALSE] THEN build ELSE overflow_checks
    /\ lexer' = r[build = "on"].l
    /\ lex_pc' = IF r[build = "on"].fatal THEN "fatal"
                 ELSE IF r[build = "on"].token = None THEN "done"
                 ELSE "next"
    /\ tokens' = IF IsSome(r[build = "on"].token)
                 THEN Append(tokens, Unwrap(r[build = "on"].token))
                 ELSE tokens

\* one call of Lexer::next
LexNext(build) ==
    /\ lex_pc = "next"
    /\ Len(tokens) < MaxTokens
    /\ overflow_checks \in {"unknown", build}
    /\ LexStep([checks \in BOOLEAN |-> Lexer_next(lexer, checks)], build)
    /\ UNCHANGED << pc, symbol_table, globals, vm, printed, nlines, hist, returns, lineVars,
                    evalVars, symVars, parser, parse_pc, statements >>

NextLex == \E build \in {"on", "off"} : LexNext(build)

SpecLex == InitLex /\ [][NextLex]_vars

\* ------------------------------------------------------------------------
\* parser.rs: a Parser over a token sequence, under calls of next.  statements
\* lists what the calls have returned; the parser is left alone once a call
\* has returned None, has panicked or is in a loop it never leaves.
\* ------------------------------------------------------------------------

\* the token the lexer makes of the text s of one token
TokenOf(s) ==
    CASE s = "==" -> Token("Eq", s)
      [] s = "!=" -> Token("NotEq", s)
      [] s = "=" -> Token("Assign", s)
      [] s = "!" -> Token("Bang", s)
      [] s \in DOMAIN Punctuation -> Token(Punctuation[s], s)
      [] s \in AsciiDigits -> Token("Int", s)
      [] OTHER -> Keyword(s)

\* the tokens of a line written as the texts of its tokens
TokensOf(texts) == [k \in 1..Len(texts) |-> TokenOf(texts[k])]

\* the tokens short sequences are made of
Lexemes == { "5", "a", "+", "-", "(", ")", ";", "let", "=", "}" }

OperatorLexemes == { "==", "!=", "<", ">", "+", "-", "*", "/" }

\* 1 o 2 p 3, with and without parentheses, for every pair of infix operators
ChainLines ==
    UNION { { << "1", o, "2", p, "3" >>,
              << "(", "1", o, "2", ")", p, "3" >>,
              << "1", o, "(", "2", p, "3", ")" >> } :
            o \in OperatorLexemes, p \in OperatorLexemes }

\* prefix operators and calls next to an infix operator
PrefixLines ==
    UNION { { << "-", "1", o, "2" >>,
              << "!", "1", o, "2" >>,
              << "1", o, "-", "2" >>,
              << "1", o, "a", "(", "2", ")" >>,
              << "a", "(", "1", ")", o, "2" >> } : o \in OperatorLexemes }
        \cup { << "-", "a", "(", "1", ")" >>,
               << "!", "a", "(", "1", ")" >> }

\* statements of every kind
StatementLines ==
    { << "let", "a", "=", "5", ";" >>,
      << "return", "5", ";" >>,
      << "a", "(", "5", ",", "5", ")", ";" >>,
      << "if", "(", "a", ")", "{", "a", "}" >>,
      << "if", "(", "a", ")", "{", "a", "}", "else", "{", "5", "}" >>,
      << "if", "(", "a", ")", "{", ")", "}" >>,
      << "fn", "(", "a", ",", "b", ")", "{", "a", "}" >>,
      << "fn", "(", ")", "{", "}", "(", ")" >>,
      << "true", ";", "false", ";" >> }

TokenInputs ==
    { TokensOf(texts) :
        texts \in UNION { [1..n -> Lexemes] : n \in 0..MaxParse }
                     \cup ChainLines \cup PrefixLines \cup StatementLines }

InitParse ==
    /\ ReplInit
    /\ table = NewSymbolTable(None)
    /\ allocated = << >>
    /\ lexer = Lexer_new(<< >>)
    /\ lex_pc = "next"
    /\ tokens = << >>
    /\ parser \in { Parser_new(toks) : toks \in TokenInputs }
    /\ parse_pc = "next"
    /\ statements = << >>

\* the step of ParseNext; r is what next has come to
ParseStep(r) ==
    /\ parser' = r.p
    /\ parse_pc' = IF r.st # "ok" THEN r.st
                   ELSE IF r.v = None THEN "done"
                   ELSE "next"
    /\ statements' = IF r.st = "ok" /\ IsSome(r.v) THEN Append(statements, Unwrap(r.v))
                     ELSE statements

\* one call of Parser::next
ParseNext ==
    /\ parse_pc = "next"
    /\ Len(statements) < MaxStatements
    /\ ParseStep(parse_statement(parser))
    /\ UNCHANGED << pc, overflow_checks, symbol_table, globals, vm, printed, nlines, hist,
                    returns, lineVars, evalVars, symVars, lexer, lex_pc, tokens >>

NextParse == ParseNext

SpecParse == InitParse /\ [][NextParse]_vars

\* ------------------------------------------------------------------------
\* What a program is made of
\* ------------------------------------------------------------------------

RECURSIVE ExprHas(_, _)
RECURSIVE StmtHas(_, _)
RECURSIVE ExprsHave(_, _)
RECURSIVE StmtsHave(_, _)

\* whether a node of one of the kinds in tags occurs in the expression
ExprHas(tags, expr) ==
    \/ expr.e \in tags
    \/ CASE expr.e = "Prefix" -> ExprHas(tags, expr.expr)
         [] expr.e = "Infix" -> ExprHas(tags, expr.left) \/ ExprHas(tags, expr.right)
         [] expr.e = "If" ->
                \/ ExprHas(tags, expr.condition)
                \/ StmtHas(tags, expr.consequence)
                \/ StmtHas(tags, expr.alternative)
         [] expr.e = "Function" -> StmtHas(tags, expr.body)
         [] expr.e = "Call" -> ExprHas(tags, expr.function) \/ ExprsHave(tags, expr.arguments)
         [] expr.e = "Array" -> ExprsHave(tags, expr.exprs)
         [] OTHER -> FALSE

ExprsHave(tags, exprs) == \E k \in 1..Len(exprs) : ExprHas(tags, exprs[k])

\* whether a node of one of the kinds in tags occurs in the statement
StmtHas(tags, stmt) ==
    \/ stmt.s \in tags
    \/ CASE stmt.s = "Block" -> StmtsHave(tags, stmt.stmts)
         [] OTHER -> ExprHas(tags, stmt.expr)

StmtsHave(tags, stmts) == \E k \in 1..Len(stmts) : StmtHas(tags, stmts[k])

\* the loop of VM::run has ended: run is about to return its triple
RunDone == pc = "run" /\ vm.instructions = << >>

\* the top-level expression statements of the line
ExprStatements == {k \in 1..Len(input) : input[k].s = "Expr"}

\* the last top-level expression statement of the line (there is one)
LastExprStatement == CHOOSE k \in ExprStatements : \A j \in ExprStatements : j <= k

\* the evaluator has evaluated every statement of the line
Evaluated_line == eval_pc = "read" /\ Len(yielded) = Len(input)

\* ------------------------------------------------------------------------
\* C1
\* ------------------------------------------------------------------------

\* C1: for a program made of let statements and expression statements that the
\* compiler accepts and the VM runs to completion, run returns top = Null, the
\* stack being empty when the instructions are exhausted, and last_popped is
\* the value of the last expression statement (the value the evaluator gives it)
C1_RunResult ==
    (RunDone /\ ~StmtsHave({"Return"}, input)) =>
        /\ vm.stack = << >>
        /\ run_result(vm).top = NULL
        /\ (ExprStatements # {} /\ Evaluated_line
                /\ yielded[LastExprStatement].t \in {"Int", "Bool", "Null"}) =>
               run_result(vm).last_popped = Some(yielded[LastExprStatement])

\* ------------------------------------------------------------------------
\* C2
\* ------------------------------------------------------------------------

\* C2: the code emitted for an expression leaves exactly one value above the
\* starting depth: when a line that is one expression statement has run up to
\* the statement's final Pop, the stack (empty at the start) holds one value
C2_BalancedStack ==
    (/\ pc = "run"
     /\ Len(input) = 1
     /\ input[1].s = "Expr"
     /\ vm.frames = << >>
     /\ vm.instructions = << Pop >>
     /\ vm.jump = 0) => Len(vm.stack) = 1

\* ------------------------------------------------------------------------
\* C3
\* ------------------------------------------------------------------------

\* C3: a call leaves the caller's stack exactly one value taller than it was
\* before the function value and its arguments were pushed, both when the
\* callee returns and when its instructions run out
C3_CallStackEffect ==
    /\ \A k \in 1..Len(returns) : returns[k].stack_len = returns[k].depth + 1
    /\ (RunDone /\ vm.frames # << >>) => Len(vm.stack) = hist[Len(hist)].depth + 1

\* ------------------------------------------------------------------------
\* C4
\* ------------------------------------------------------------------------

\* a call in progress has called the body it runs itself, with the slots it
\* was entered with: the VM, which from a body and its slots always does the
\* same, calls again without end
Reentered ==
    \E j \in 2..Len(hist), k \in 2..Len(hist) :
        /\ j < k
        /\ hist[j].instrs = hist[k].instrs
        /\ hist[j].entry = hist[k].entry

\* C4: executing a function's body under Call terminates, the frame the call
\* pushed being popped: no body is entered again from inside itself with the
\* same arguments, and when the loop of VM::run ends no frame is left pushed
C4_CallTerminates ==
    /\ ~Reentered
    /\ RunDone => vm.frames = << >>

\* ------------------------------------------------------------------------
\* C5
\* ------------------------------------------------------------------------

\* what the evaluator-mode REPL prints for the line: one value per statement
EvaluatorPrints == [k \in 1..Len(yielded) |-> Display(yielded[k])]

\* what the vm-mode REPL prints when run returns
VmPrints == Display(run_result(vm).top)

\* C5: for a first line that uses no function, and that both modes run
\* without a fatal error, the value the vm-mode REPL prints is the value the
\* evaluator-mode REPL prints (the last one, when it prints several)
C5_ModesAgree ==
    (/\ RunDone
     /\ nlines = 1
     /\ eval_pc = "read"
     /\ yielded # << >>
     /\ ~StmtsHave({"Function", "Call"}, input)) =>
        VmPrints = EvaluatorPrints[Len(yielded)]

\* ------------------------------------------------------------------------
\* C6
\* ------------------------------------------------------------------------

\* In an instruction vector, for the JumpNotTruthy at position p: the If's Jump
\* is the instruction the JumpNotTruthy lands before, the consequence lies
\* between the two, the alternative (or the padding Null) is what the Jump
\* passes over, and the If ends where the Jump lands.
JumpAt(instrs, p) == p + instrs[p].n

After(instrs, p) == JumpAt(instrs, p) + instrs[JumpAt(instrs, p)].n + 1

ConsequenceOf(instrs, p) == (p + 1)..(JumpAt(instrs, p) - 1)

AlternativeOf(instrs, p) == (JumpAt(instrs, p) + 1)..(After(instrs, p) - 1)

\* the positions the If at t.pos passes over: the alternative when the
\* condition was truthy, the consequence and the Jump when it was not
SkippedBy(instrs, t) ==
    IF t.truthy THEN AlternativeOf(instrs, t.pos)
    ELSE ConsequenceOf(instrs, t.pos) \cup {JumpAt(instrs, t.pos)}

\* the positions of vector k the Ifs executed so far pass over
Skipped(k) == UNION {SkippedBy(hist[k].instrs, t) : t \in hist[k].taken}

\* C6: in every instruction vector being run, an instruction the run loop has
\* fetched was executed exactly if it lies in no branch that an executed If
\* did not take: on a truthy condition none of the alternative (or the
\* padding Null) executes, on Bool(false) or Null none of the consequence nor
\* the Jump, every other instruction reached executes, nested Ifs included,
\* and the first instruction after the If is the next one executed after the
\* taken branch
C6_IfExecution ==
    \A k \in 1..Len(hist) :
        \A i \in 1..Fetched(k) :
            (i \in hist[k].executed) <=> (i \notin Skipped(k))

\* an If whose consequence holds an If has run with the outer condition
\* truthy and the inner one not, and the vector has been run to its end
C6_NestedIfRan ==
    /\ pc = "run"
    /\ \E k \in 1..Len(hist) :
        /\ Fetched(k) = Len(hist[k].instrs)
        /\ \E t \in hist[k].taken, u \in hist[k].taken :
            /\ t.truthy
            /\ ~u.truthy
            /\ u.pos \in ConsequenceOf(hist[k].instrs, t.pos)
            /\ AlternativeOf(hist[k].instrs, t.pos) # {}

\* ------------------------------------------------------------------------
\* C7
\* ------------------------------------------------------------------------

\* a vector with one trailing Pop removed if present
Stripped(instructions) ==
    IF instructions # << >> /\ instructions[Len(instructions)] = Pop
    THEN SubSeq(instructions, 1, Len(instructions) - 1)
    ELSE instructions

\* the compiler c starting on an empty instruction vector
Afresh(c) == [c EXCEPT !.instructions = << >>]

\* the compiler after the condition of the If, and after each branch, each
\* compiled on its own from the state the part before it leaves
AfterCondition(c, expr) == compile_expression(Afresh(c), expr.condition)

AfterConsequence(c, expr) ==
    compile_statement(Afresh(AfterCondition(c, expr)), expr.consequence)

AfterAlternative(c, expr) ==
    compile_statement(Afresh(AfterConsequence(c, expr)), expr.alternative)

\* the layout of if (c) {A} else {B}: code(c), JumpNotTruthy(|A'| + 1), A',
\* and Jump(|B'|), B', or Jump(1), Null when the alternative emits nothing
IfLayout(c, expr) ==
    AfterCondition(c, expr).instructions
        \o << JumpNotTruthy(Len(Stripped(AfterConsequence(c, expr).instructions)) + 1) >>
        \o Stripped(AfterConsequence(c, expr).instructions)
        \o (IF AfterAlternative(c, expr).instructions = << >>
            THEN << Jump(1), Op("Null") >>
            ELSE << Jump(Len(Stripped(AfterAlternative(c, expr).instructions))) >>
                     \o Stripped(AfterAlternative(c, expr).instructions))

RECURSIVE NoPlaceholder(_)
\* no jump of the vector, nor of a function it holds, has the operand 9999
NoPlaceholder(instrs) ==
    \A p \in 1..Len(instrs) :
        /\ instrs[p].op \in {"Jump", "JumpNotTruthy"} => instrs[p].n # Placeholder
        /\ (instrs[p].op = "Constant" /\ instrs[p].obj.t = "CompiledFunction") =>
               NoPlaceholder(instrs[p].obj.instructions)

\* the line is the statement e; with e an If expression
IsIfLine == Len(input) = 1 /\ input[1].s = "Expr" /\ input[1].expr.e = "If"

\* the line is fn() { e; 9 }(); with e an If expression
IsFnIfLine ==
    /\ Len(input) = 1
    /\ input[1].s = "Expr"
    /\ input[1].expr.e = "Call"
    /\ input[1].expr.function.e = "Function"
    /\ input[1].expr.function.parameters = << >>
    /\ Len(input[1].expr.function.body.stmts) = 2
    /\ input[1].expr.function.body.stmts[2] = SExpr(Num("9"))
    /\ input[1].expr.function.body.stmts[1].s = "Expr"
    /\ input[1].expr.function.body.stmts[1].expr.e = "If"

\* the block is { e } with e an If expression
IsIfBlock(block) ==
    Len(block.stmts) = 1 /\ block.stmts[1].s = "Expr" /\ block.stmts[1].expr.e = "If"

\* the code of each branch that is itself { if ... } has the layout, too
NestedLayout(c, expr) ==
    /\ IsIfBlock(expr.consequence) =>
           Stripped(AfterConsequence(c, expr).instructions) =
               IfLayout(AfterCondition(c, expr), expr.consequence.stmts[1].expr)
    /\ IsIfBlock(expr.alternative) =>
           Stripped(AfterAlternative(c, expr).instructions) =
               IfLayout(AfterConsequence(c, expr), expr.alternative.stmts[1].expr)

\* the compiler as Compiler::new makes it for the line being run
LineCompiler == Compiler_new(input, symbol_table)

\* the line has been compiled and the VM made for its code has not yet run
Compiled == pc = "run" /\ vm.frames = << >> /\ vm.instructions = code

\* C7: the code emitted for if (c) {A} else {B} is code(c),
\* JumpNotTruthy(|A'| + 1), A', Jump(|B'|), B', with A' and B' the code of the
\* branches less one trailing Pop, and Jump(1), Null when the alternative
\* emits nothing: at top level, in a function body and in a branch of another
\* If; and no jump of the emitted code keeps the placeholder 9999
C7_IfLayout ==
    Compiled =>
        /\ NoPlaceholder(code)
        /\ IsIfLine =>
            /\ code = IfLayout(LineCompiler, input[1].expr) \o << Pop >>
            /\ NestedLayout(LineCompiler, input[1].expr)
        /\ IsFnIfLine =>
            /\ code[1].obj.instructions =
                   IfLayout(enter_scope(LineCompiler), input[1].expr.function.body.stmts[1].expr)
                       \o << Pop, Constant(IntObj(9)), Op("ReturnValue") >>
            /\ NestedLayout(enter_scope(LineCompiler),
                            input[1].expr.function.body.stmts[1].expr)

\* an If whose consequence is an If and whose alternative is empty has been
\* compiled
C7_IfCompiled ==
    /\ pc = "run"
    /\ IsIfLine
    /\ IsIfBlock(input[1].expr.consequence)
    /\ input[1].expr.alternative.stmts = << >>
    /\ code[Len(code) - 2] = Jump(1)

\* ------------------------------------------------------------------------
\* C8
\* ------------------------------------------------------------------------

\* the If of the line being run, and the compiler that meets it
LineIf ==
    IF IsIfLine THEN input[1].expr ELSE input[1].expr.function.body.stmts[1].expr

IfCompiler == IF IsIfLine THEN LineCompiler ELSE enter_scope(LineCompiler)

\* the vector the If of the line is emitted into
IfVector == IF IsIfLine THEN code ELSE code[1].obj.instructions

\* the operands of the If's JumpNotTruthy and of its Jump, read from the code
offset_c == IfVector[Len(AfterCondition(IfCompiler, LineIf).instructions) + 1].n

offset_a == IfVector[Len(AfterCondition(IfCompiler, LineIf).instructions) + 1 + offset_c].n

\* the number of instructions emitted for the two branches (each less its
\* trailing Pop), plus the padding Null of an alternative that emits nothing
BranchInstructions ==
    Len(Stripped(AfterConsequence(IfCompiler, LineIf).instructions))
        + Len(Stripped(AfterAlternative(IfCompiler, LineIf).instructions))
        + (IF AfterAlternative(IfCompiler, LineIf).instructions = << >> THEN 1 ELSE 0)

\* C8 as stated: offset_c + 2 + offset_a is the number of instructions emitted
\* for the two branches plus padding
C8_OffsetSum_stated ==
    (Compiled /\ (IsIfLine \/ IsFnIfLine)) => offset_c + 2 + offset_a = BranchInstructions

\* C8: offset_c + offset_a - 1 is the number of instructions emitted for the
\* two branches plus padding (offset_c counts the consequence and the Jump,
\* offset_a the alternative or the padding)
C8_OffsetSum ==
    (Compiled /\ (IsIfLine \/ IsFnIfLine)) => offset_c + offset_a - 1 = BranchInstructions

\* an If with a consequence of two instructions and no alternative has been
\* compiled: the offsets are 3 and 1, the branches and the padding 3
C8_PaddedIfCompiled ==
    /\ pc = "run"
    /\ IsIfLine
    /\ offset_c = 3
    /\ offset_a = 1
    /\ BranchInstructions = 3

\* ------------------------------------------------------------------------
\* C9
\* ------------------------------------------------------------------------

RECURSIVE JumpsInRange(_)
\* every jump of the vector, and of the functions it holds, lands in the vector
\* or just behind it: with p counted from 1, pc + 1 + off is p + off
JumpsInRange(instrs) ==
    \A p \in 1..Len(instrs) :
        /\ instrs[p].op \in {"Jump", "JumpNotTruthy"} => p + instrs[p].n <= Len(instrs)
        /\ (instrs[p].op = "Constant" /\ instrs[p].obj.t = "CompiledFunction") =>
               JumpsInRange(instrs[p].obj.instructions)

\* C9: in the program emitted for a line and in every function body, each jump
\* at pc satisfies pc + 1 + off <= length of its vector, and the skip-counter
\* is 0 whenever the VM has exhausted the vector it runs
C9_JumpsInRange ==
    /\ JumpsInRange(code)
    /\ \A k \in 1..Len(hist) : JumpsInRange(hist[k].instrs)
    /\ (pc = "run" /\ vm.instructions = << >>) => vm.jump = 0

\* the VM has exhausted the vector of a line, having executed a Jump that
\* landed on the vector's last instruction
C9_JumpBeforeTheEnd ==
    /\ pc = "run"
    /\ vm.instructions = << >>
    /\ vm.frames = << >>
    /\ \E p \in hist[1].executed :
        /\ hist[1].instrs[p].op = "Jump"
        /\ p + hist[1].instrs[p].n + 1 = Len(hist[1].instrs)

\* ------------------------------------------------------------------------
\* C10
\* ------------------------------------------------------------------------

\* C10: after any sequence of define calls on one table, repeated definitions
\* of a name included, num_definitions is the number of indices allocated, the
\* indices were handed out as 0, 1, 2, ... in the order of the calls, none
\* twice, and every Symbol stored in the table has an index below
\* num_definitions
C10_SymbolTable ==
    /\ table.num_definitions = Len(allocated)
    /\ \A k \in 1..Len(allocated) : allocated[k] = k - 1
    /\ \A j \in 1..Len(allocated), k \in 1..Len(allocated) :
           j # k => allocated[j] # allocated[k]
    /\ \A s \in table.map : s.index < table.num_definitions

\* one name has been defined three times in a local table: the table stores
\* one Symbol, the one of the last definition
C10_DefinedAgain ==
    /\ allocated = << 0, 1, 2 >>
    /\ table.map = {Symbol("a", "Local", 2)}

\* ------------------------------------------------------------------------
\* C11
\* ------------------------------------------------------------------------

RECURSIVE FunctionsIn(_)
RECURSIVE FunctionsOf(_)

\* the function literals of an expression, nested ones included
FunctionsIn(expr) ==
    CASE expr.e = "Prefix" -> FunctionsIn(expr.expr)
      [] expr.e = "Infix" -> FunctionsIn(expr.left) \cup FunctionsIn(expr.right)
      [] expr.e = "If" ->
            FunctionsIn(expr.condition) \cup FunctionsOf(expr.consequence)
                \cup FunctionsOf(expr.alternative)
      [] expr.e = "Function" -> {expr} \cup FunctionsOf(expr.body)
      [] expr.e = "Call" ->
            FunctionsIn(expr.function)
                \cup UNION {FunctionsIn(expr.arguments[k]) : k \in 1..Len(expr.arguments)}
      [] expr.e = "Array" -> UNION {FunctionsIn(expr.exprs[k]) : k \in 1..Len(expr.exprs)}
      [] OTHER -> {}

\* the function literals of a statement
FunctionsOf(stmt) ==
    IF stmt.s = "Block" THEN UNION {FunctionsOf(stmt.stmts[k]) : k \in 1..Len(stmt.stmts)}
    ELSE FunctionsIn(stmt.expr)

\* the function literals of the line being run
LineFunctions == UNION {FunctionsOf(input[k]) : k \in 1..Len(input)}

\* compilers about to meet a function literal: at top level after one
\* instruction, and inside a function of two parameters after one instruction
EnclosingCompilers ==
    { Emit(LineCompiler, Op("True")),
      Emit(define_parameters(enter_scope(Emit(LineCompiler, Op("Null"))),
                             << Ident_x, Ident_a >>),
           Op("True")) }

\* compiling the literal f from the compiler c leaves the symbol table and the
\* saved vectors of c as they were and appends one Constant, a
\* CompiledFunction, to its instructions
LiteralLeaves(c, f) ==
    LET d == compile_function(c, f.parameters, f.body)
    IN  ~d.fatal =>
            /\ d.symbol_table = c.symbol_table
            /\ d.scopes = c.scopes
            /\ Len(d.instructions) = Len(c.instructions) + 1
            /\ SubSeq(d.instructions, 1, Len(c.instructions)) = c.instructions
            /\ d.instructions[Len(d.instructions)].op = "Constant"
            /\ d.instructions[Len(d.instructions)].obj.t = "CompiledFunction"

\* C11: compiling a function literal leaves the enclosing symbol table as it
\* was (same bindings, same num_definitions) and the enclosing instruction
\* vector with one Constant appended; and when the compiler returns, no saved
\* vector is left and the symbol table returned has no outer table and holds
\* only Global symbols
C11_ScopeRestored ==
    Compiled =>
        /\ \A c \in EnclosingCompilers, f \in LineFunctions : LiteralLeaves(c, f)
        /\ compiler_run(LineCompiler).scopes = << >>
        /\ sym_table.outer = None
        /\ \A sym \in sym_table.map : sym.scope = "Global"

\* a line has been compiled in which a function that binds a local of its own
\* is called between two lets at top level
C11_LocalsCompiled ==
    /\ Compiled
    /\ Len(input) = 3
    /\ \E f \in LineFunctions : f.body.stmts # << >> /\ f.body.stmts[1].s = "Let"
    /\ sym_table.num_definitions = symbol_table.num_definitions + 2

\* ------------------------------------------------------------------------
\* C12
\* ------------------------------------------------------------------------

RECURSIVE SetGlobalFree(_)
\* no SetGlobal in the instructions, nor in any function among their constants
SetGlobalFree(instructions) ==
    \A k \in 1..Len(instructions) :
        /\ instructions[k].op # "SetGlobal"
        /\ (instructions[k].op = "Constant" /\ instructions[k].obj.t = "CompiledFunction")
              => SetGlobalFree(instructions[k].obj.instructions)

\* the function bodies among the constants of the instructions
FunctionBodies(instructions) ==
    { instructions[k].obj.instructions :
        k \in { j \in 1..Len(instructions) :
                  /\ instructions[j].op = "Constant"
                  /\ instructions[j].obj.t = "CompiledFunction" } }

\* a step of the run loop that begins or ends with a frame pushed
StepOfACall == pc = "run" /\ pc' # "read" /\ (vm.frames # << >> \/ vm'.frames # << >>)

\* C12: no function body the compiler emits contains SetGlobal, and the steps
\* of a call, from its Call to its return, leave the globals map as it was; a
\* let inside a body of a name that is also a global leaves the global alone
C12_CallsKeepGlobals ==
    [][ /\ (pc = "read" /\ pc' = "run")
            => \A body \in FunctionBodies(code') : SetGlobalFree(body)
        /\ StepOfACall => vm'.globals = vm.globals ]_vars

\* let a = 1; let b = fn() { let a = 2; a; }(); a + b; has run: the call has
\* returned 2 from its local a, and the global a is still 1
C12_GlobalKept ==
    /\ RunDone
    /\ Len(input) = 3
    /\ input[1] = SLet(Ident_a, Num("1"))
    /\ \E f \in LineFunctions : f.body.stmts # << >> /\ f.body.stmts[1] = SLet(Ident_a, Num("2"))
    /\ vm.globals[sym_table.num_definitions - 2] = IntObj(1)
    /\ vm.globals[sym_table.num_definitions - 1] = IntObj(2)
    /\ vm.last_popped = Some(IntObj(3))

\* ------------------------------------------------------------------------
\* C13
\* ------------------------------------------------------------------------

\* the table t2 is t1 with further definitions: every name of t1 is still
\* bound, to the symbol it had or to one defined since
Extends(t2, t1) ==
    /\ t2.num_definitions >= t1.num_definitions
    /\ \A sym \in t1.map :
          \E s2 \in t2.map :
              /\ s2.name = sym.name
              /\ s2 = sym \/ s2.index >= t1.num_definitions

\* the object obj of the VM is the value val a let has bound
SameValue(obj, val) ==
    IF val.t = "Function" THEN obj.t = "CompiledFunction" ELSE obj = val

\* the line is the single name n, bound by a let of an earlier line to val
ReadsGlobal(n, val) ==
    /\ input = << SExpr(EIdent(n)) >>
    /\ eval_pc = "read"
    /\ Environment_get(environment, n) = Some(val)

\* C13: in vm mode the symbol table and the globals a line returns are the
\* ones the next line starts from, so a global bound by a let of an earlier
\* line is read on a later line with the value it was last assigned; the
\* value stack, the frame stack and last_popped are empty when a line starts
C13_SessionState ==
    [][ /\ (pc = "run" /\ pc' = "read")
            => /\ symbol_table' = sym_table
               /\ globals' = vm.globals
               /\ \A n \in Names :
                     \A val \in {environment.env[k] : k \in DOMAIN environment.env} :
                        ReadsGlobal(n, val) /\ nlines > 1
                            => /\ IsSome(vm.last_popped)
                               /\ SameValue(Unwrap(vm.last_popped), val)
        /\ (pc = "read" /\ pc' = "run")
            => /\ Extends(sym_table', symbol_table)
               /\ vm'.globals = globals
               /\ vm'.stack = << >>
               /\ vm'.frames = << >>
               /\ vm'.last_popped = None ]_vars

\* the second line, a;, has read the 2 that the first line bound to a
C13_GlobalRead ==
    /\ RunDone
    /\ nlines = 2
    /\ ReadsGlobal("a", IntObj(2))
    /\ symbol_table.num_definitions > 0
    /\ vm.last_popped = Some(IntObj(2))

\* ------------------------------------------------------------------------
\* C14
\* ------------------------------------------------------------------------

\* the run loop is about to execute an instruction with the opcode op
Executes(op) ==
    /\ pc = "run"
    /\ vm.instructions # << >>
    /\ vm.jump = 0
    /\ Head(vm.instructions).op = op

\* the operand of the instruction about to be executed
Operand == Head(vm.instructions).n

\* the number of arguments of the call that pushed the current frame: the
\* operand of the Call its caller executed last
Arguments == hist[Len(hist) - 1].instrs[Fetched(Len(hist) - 1)].n

\* Call(n) has taken the function value from below its n arguments and set the
\* base to the n arguments
CalledWith(n) ==
    /\ vm.stack[Len(vm.stack) - n].t = "CompiledFunction"
    /\ SubSeq(vm'.stack, 1, Len(vm.stack) - 1) = Remove(vm.stack, Len(vm.stack) - n - 1)
    /\ vm'.base = Len(vm.stack) - 1 - n
    /\ \A i \in 0..(n - 1) : vm'.stack[vm'.base + i + 1] = vm.stack[Len(vm.stack) - n + i + 1]

\* C14: Call(n) removes the function value from position top - n and sets the
\* frame base to the stack length minus n, and inside the callee GetLocal(i)
\* for 0 <= i < n yields the i-th argument of the call, in left-to-right order
C14_CallingConvention ==
    [][ /\ (Executes("Call") /\ Len(vm'.frames) > Len(vm.frames)) => CalledWith(Operand)
        /\ (Executes("GetLocal") /\ vm.frames # << >> /\ Operand < Arguments)
              => /\ pc' = "run"
                 /\ Top(vm') = hist[Len(hist)].entry[Operand + 1] ]_vars

\* ------------------------------------------------------------------------
\* C15
\* ------------------------------------------------------------------------

\* the line is one expression statement, the call of a function literal with
\* as many arguments as it has parameters
IsLiteralCall ==
    /\ Len(input) = 1
    /\ input[1].s = "Expr"
    /\ input[1].expr.e = "Call"
    /\ input[1].expr.function.e = "Function"
    /\ Len(input[1].expr.arguments) = Len(input[1].expr.function.parameters)

\* the statements of the body of the function the line calls
CalledBody == input[1].expr.function.body.stmts

\* the body called is empty or ends with a return or an expression statement
EndsWithValue == CalledBody = << >> \/ CalledBody[Len(CalledBody)].s # "Let"

\* what the call of the line results in: Null for the empty body, and else the
\* operand of the return executed or the value of the final expression
\* statement, as the evaluator has found it
CallResult == IF CalledBody = << >> THEN NULL ELSE yielded[1]

\* C15: the result of calling a compiled function is the operand of the
\* return statement executed, the value of the final expression statement of
\* a body that ends with one, and Null for the empty body
C15_CallResult ==
    (IsLiteralCall /\ EndsWithValue /\ Evaluated_line)
        => /\ pc # "fatal"
           /\ RunDone => /\ vm.frames = << >>
                         /\ IsSome(vm.last_popped)
                         /\ SameValue(Unwrap(vm.last_popped), CallResult)

\* ------------------------------------------------------------------------
\* C16
\* ------------------------------------------------------------------------

\* the value at position top - n, n being the operand of the Call about to be
\* executed
Callee == vm.stack[Len(vm.stack) - Operand]

\* the Call about to be executed finds no function at top - n, or a function
\* of another number of parameters
Uncallable ==
    /\ Executes("Call")
    /\ Len(vm.stack) > Operand
    /\ Callee.t = "CompiledFunction" => Callee.num_paras # Operand

\* the instruction vector k of hist fetched last
LastFetched(k) == hist[k].instrs[Fetched(k)]

\* C16: Call(n) is fatal when the value at position top - n is not a
\* CompiledFunction and when n differs from the function's num_params; no
\* frame is pushed and no instruction of the callee is executed
C16_CallRefused ==
    [][ Uncallable
          => /\ vm'.fatal
             /\ pc' = "fatal"
             /\ vm'.frames = vm.frames
             /\ vm'.instructions = Tail(vm.instructions)
             /\ Len(hist') = Len(hist)
             /\ \A k \in 1..Len(hist) : hist'[k].instrs = hist[k].instrs ]_vars

\* the call fn(a) { a; }() has been refused for its number of arguments
C16_Refused ==
    /\ pc = "fatal"
    /\ vm.fatal
    /\ vm.frames = << >>
    /\ Fetched(1) > 0
    /\ LastFetched(1) = OpN("Call", 0)
    /\ input = << SExpr(ECall(FnIdentity, << >>)) >>

\* ------------------------------------------------------------------------
\* C17
\* ------------------------------------------------------------------------

\* the operands of the binary instruction about to be executed
Left == vm.stack[Len(vm.stack) - 1]

Right == vm.stack[Len(vm.stack)]

\* the instruction executed has popped two values and pushed obj
Replaced(obj) ==
    /\ pc' = "run"
    /\ vm'.stack = Append(SubSeq(vm.stack, 1, Len(vm.stack) - 2), obj)

\* the instruction executed was fatal and pushed nothing
Fatal ==
    /\ pc' = "fatal"
    /\ vm'.fatal
    /\ Len(vm'.stack) < Len(vm.stack)
    /\ vm'.stack = SubSeq(vm.stack, 1, Len(vm'.stack))

\* C17: Add pops two values and pushes Int(l + r) when both are Int and
\* Str(l ++ r), left operand first, when both are Str; every other pair of
\* operands is fatal, and Sub, Mul and Div on two Str operands are fatal
C17_Add ==
    [][ /\ (Executes("Add") /\ Len(vm.stack) >= 2)
            => IF Left.t = "Int" /\ Right.t = "Int"
               THEN Replaced(IntObj(Left.i + Right.i))
               ELSE IF Left.t = "Str" /\ Right.t = "Str"
               THEN Replaced(StrObj(Left.s \o Right.s))
               ELSE Fatal
        /\ ((Executes("Sub") \/ Executes("Mul") \/ Executes("Div")) /\ Len(vm.stack) >= 2
              /\ Left.t = "Str" /\ Right.t = "Str")
            => Fatal ]_vars

\* ------------------------------------------------------------------------
\* C18
\* ------------------------------------------------------------------------

\* the run loop is about to execute a comparison on two operands
Compares ==
    /\ Executes("Equal") \/ Executes("NotEqual") \/ Executes("GreaterThan")
          \/ Executes("LessThan")
    /\ Len(vm.stack) >= 2

\* the comparison about to be executed is one of equality
ForEquality == Head(vm.instructions).op \in {"Equal", "NotEqual"}

\* what the comparison op makes of two Ints
IntComparison(op, l, r) ==
    CASE op = "Equal" -> l = r
      [] op = "NotEqual" -> l # r
      [] op = "GreaterThan" -> l > r
      [] op = "LessThan" -> l < r

\* C18: Equal and NotEqual pop two values and push a Bool for two Ints and for
\* two Bools, GreaterThan and LessThan for two Ints only; every other pair of
\* operands, two Bools under an ordering comparison included, is fatal and
\* pushes nothing
C18_Comparison ==
    [][ Compares
          => IF Left.t = "Int" /\ Right.t = "Int"
             THEN Replaced(BoolObj(IntComparison(Head(vm.instructions).op, Left.i, Right.i)))
             ELSE IF Left.t = "Bool" /\ Right.t = "Bool" /\ ForEquality
             THEN Replaced(BoolObj((Left.b = Right.b) = Executes("Equal")))
             ELSE Fatal ]_vars

\* true > true has been refused
C18_BoolsNotOrdered ==
    /\ pc = "fatal"
    /\ vm.fatal
    /\ input = << SExpr(EInfix(">", EBool("true"), EBool("true"))) >>
    /\ Fetched(1) = 3
    /\ LastFetched(1) = Op("GreaterThan")
    /\ vm.stack = << >>

\* ------------------------------------------------------------------------
\* C19
\* ------------------------------------------------------------------------

\* the line is one expression statement, an array literal
IsArrayLine(line) ==
    /\ Len(line) = 1
    /\ line[1].s = "Expr"
    /\ line[1].expr.e = "Array"

RECURSIVE ElementCode(_, _)
\* the code of the expressions, each compiled afresh by the compiler c, one
\* after the other
ElementCode(c, exprs) ==
    IF exprs = << >> THEN << >>
    ELSE compile_expression(c, Head(exprs)).instructions \o ElementCode(c, Tail(exprs))

\* the code of the array literal: its elements from left to right, then Array(n)
ArrayCode(c, exprs) == Append(ElementCode(c, exprs), OpN("Array", Len(exprs)))

\* C19: for an array literal with n elements the compiler emits the code of
\* the elements from left to right followed by Array(n); Array(n) pops n values
\* and pushes one Array holding them in their order on the stack, which leaves
\* the stack n - 1 shorter
C19_Array ==
    [][ /\ (pc = "read" /\ pc' = "run" /\ IsArrayLine(input'))
            => code' = Append(ArrayCode(Compiler_new(input', symbol_table),
                                        input'[1].expr.exprs), Pop)
        /\ (Executes("Array") /\ Len(vm.stack) >= Operand)
            => /\ pc' = "run"
               /\ Len(vm'.stack) = Len(vm.stack) - (Operand - 1)
               /\ SubSeq(vm'.stack, 1, Len(vm'.stack) - 1)
                    = SubSeq(vm.stack, 1, Len(vm.stack) - Operand)
               /\ Top(vm') = ArrayObj(SubSeq(vm.stack, Len(vm.stack) - Operand + 1,
                                             Len(vm.stack))) ]_vars

\* [true, 1, "a"] has been built from the three values on the stack
C19_ArrayBuilt ==
    /\ pc = "run"
    /\ IsArrayLine(input)
    /\ Fetched(1) = 4
    /\ LastFetched(1) = OpN("Array", 3)
    /\ vm.stack = << ArrayObj(<< TRUE_OBJ, IntObj(1), StrObj("a") >>) >>

\* ------------------------------------------------------------------------
\* C20
\* ------------------------------------------------------------------------

\* the element of the array at the index, Null for an index out of range
ElementAt(array, index) ==
    IF 0 <= index /\ index < Len(array.elems) THEN array.elems[index + 1] ELSE NULL

\* C20: Index pops an Int index and then an Array and pushes the element at
\* that index when 0 <= index < length, and Null for every index out of range,
\* the negative ones included; an index that is not an Int and an operand that
\* is not an Array are fatal
C20_Index ==
    [][ (Executes("Index") /\ Len(vm.stack) >= 2)
          => IF Right.t # "Int" THEN Fatal
             ELSE IF Left.t # "Array" THEN Fatal
             ELSE Replaced(ElementAt(Left, Right.i)) ]_vars

\* [1, 2][-1] has given Null
C20_NegativeIndex ==
    /\ pc = "run"
    /\ input = << SExpr(EInfix("[", EArray(<< Num("1"), Num("2") >>),
                               EPrefix("-", Num("1")))) >>
    /\ Fetched(1) > 0
    /\ LastFetched(1) = Op("Index")
    /\ vm.stack = << NULL >>

\* ------------------------------------------------------------------------
\* C21
\* ------------------------------------------------------------------------

RECURSIVE LetsIn(_)
RECURSIVE LetsInAll(_)
RECURSIVE LetsOf(_)
RECURSIVE LetsOfAll(_)

\* the let statements in the expression, those of function literals left out
LetsIn(expr) ==
    CASE expr.e = "Prefix" -> LetsIn(expr.expr)
      [] expr.e = "Infix" -> LetsIn(expr.left) + LetsIn(expr.right)
      [] expr.e = "If" ->
            LetsIn(expr.condition) + LetsOf(expr.consequence) + LetsOf(expr.alternative)
      [] expr.e = "Call" -> LetsIn(expr.function) + LetsInAll(expr.arguments)
      [] expr.e = "Array" -> LetsInAll(expr.exprs)
      [] OTHER -> 0

LetsInAll(exprs) ==
    IF exprs = << >> THEN 0 ELSE LetsIn(Head(exprs)) + LetsInAll(Tail(exprs))

\* the let statements in the statement, those of function literals left out
LetsOf(stmt) ==
    CASE stmt.s = "Block" -> LetsOfAll(stmt.stmts)
      [] stmt.s = "Let" -> 1 + LetsIn(stmt.expr)
      [] OTHER -> LetsIn(stmt.expr)

LetsOfAll(stmts) ==
    IF stmts = << >> THEN 0 ELSE LetsOf(Head(stmts)) + LetsOfAll(Tail(stmts))

\* the CompiledFunction that the compiler c makes of the literal f
Emitted(c, f) ==
    LET d == compile_function(c, f.parameters, f.body)
    IN  d.instructions[Len(d.instructions)].obj

\* the table of the function f once its parameters are defined
ParameterTable(c, f) == define_parameters(enter_scope(c), f.parameters).symbol_table

\* the parameters of f are the Locals 0, 1, ... in the order declared
ParametersFirst(c, f) ==
    \A k \in 1..Len(f.parameters) :
        (\A j \in (k + 1)..Len(f.parameters) : f.parameters[j] # f.parameters[k])
            => resolve(ParameterTable(c, f), f.parameters[k].name)
                 = Some(Symbol(f.parameters[k].name, "Local", k - 1))

\* the slots of the function compiled from f
SlotsCounted(c, f) ==
    ~compile_function(c, f.parameters, f.body).fatal
        => /\ Emitted(c, f).num_paras = Len(f.parameters)
           /\ Emitted(c, f).num_paras <= Emitted(c, f).num_locals
           /\ Emitted(c, f).num_locals = Len(f.parameters) + LetsOf(f.body)
           /\ ParametersFirst(c, f)

\* C21: for every CompiledFunction the compiler emits, num_params <=
\* num_locals, num_locals is the number of definitions made in the function's
\* own table (the parameters and every let of the body, those in if-blocks and
\* repeated lets of one name included, those of nested function literals
\* excluded), and the parameters have the slots 0..num_params-1 in the order
\* of their declaration
C21_Slots ==
    Compiled => \A c \in EnclosingCompilers, f \in LineFunctions : SlotsCounted(c, f)

\* a function has been compiled that binds one name in both branches of an if
C21_RepeatedLet ==
    /\ Compiled
    /\ \E f \in LineFunctions :
          /\ LetsOf(f.body) = 2
          /\ Emitted(LineCompiler, f).num_locals = 2
          /\ Cardinality(compile_statement(define_parameters(enter_scope(LineCompiler),
                                                            f.parameters),
                                           f.body).symbol_table.map) = 1

\* ------------------------------------------------------------------------
\* C22
\* ------------------------------------------------------------------------

\* how many of the instructions have the opcode op
Count(instructions, op) ==
    Cardinality({k \in 1..Len(instructions) : instructions[k].op = op})

\* the scope define gives a name in the table
DefinedScope(t, name) == define(t, name).symbol.scope

\* the lets of the function compiled from f are all SetLocal
LetsAreLocal(c, f) ==
    ~compile_function(c, f.parameters, f.body).fatal
        => /\ Count(Emitted(c, f).instructions, "SetLocal") = LetsOf(f.body)
           /\ Count(Emitted(c, f).instructions, "SetGlobal") = 0

\* C22: a define in a table with no outer table yields a Global symbol and a
\* define in a table with an outer table a Local one; only function literals
\* open a table, so every let of the top level, those in if-blocks included,
\* is compiled to SetGlobal and every let of a function body to SetLocal
C22_Scopes ==
    Compiled
        => /\ \A n \in Names :
                /\ DefinedScope(symbol_table, n) = "Global"
                /\ DefinedScope(NewSymbolTable(Some(symbol_table)), n) = "Local"
                /\ DefinedScope(NewSymbolTable(Some(NewSymbolTable(Some(symbol_table)))), n)
                     = "Local"
           /\ sym_table.outer = None
           /\ sym_table.num_definitions = symbol_table.num_definitions + LetsOfAll(input)
           /\ Count(code, "SetGlobal") = LetsOfAll(input)
           /\ Count(code, "SetLocal") = 0
           /\ \A c \in EnclosingCompilers, f \in LineFunctions : LetsAreLocal(c, f)

\* a let in an if-block at top level has been compiled to SetGlobal
C22_LetInIfBlock ==
    /\ Compiled
    /\ Len(input) = 1
    /\ input[1].s = "Expr"
    /\ input[1].expr.e = "If"
    /\ LetsOf(input[1].expr.consequence) = 1
    /\ Count(code, "SetGlobal") >= 1
    /\ \E sym \in sym_table.map :
          sym.scope = "Global" /\ sym.index = symbol_table.num_definitions

\* ------------------------------------------------------------------------
\* C23
\* ------------------------------------------------------------------------

\* the tables of the chain, counted from the outermost, that have defined name
Defining(name) ==
    {l \in 1..Len(allocated) : \E k \in 1..Len(allocated[l]) : allocated[l][k] = name}

\* the innermost of them
Innermost(name) == CHOOSE l \in Defining(name) : \A m \in Defining(name) : m <= l

\* the last define call of table l that was given name, counted from 1
MostRecent(l, name) ==
    CHOOSE k \in 1..Len(allocated[l]) :
        /\ allocated[l][k] = name
        /\ \A j \in (k + 1)..Len(allocated[l]) : allocated[l][j] # name

\* the Symbol of the most recent definition of name in the innermost table
\* that defines it
Visible(name) ==
    Symbol(name, IF Innermost(name) = 1 THEN "Global" ELSE "Local",
           MostRecent(Innermost(name), name) - 1)

\* C23: resolve(name) returns the most recent definition of name in the
\* innermost table of the chain that defines it, and absent only when no table
\* of the chain defines it; a definition in an inner table hides the outer one
\* while that table is current, and no longer once it has been left
C23_Resolve ==
    \A name \in Names :
        resolve(table, name) = IF Defining(name) = {} THEN None ELSE Some(Visible(name))

\* a is defined in the outermost table and, after b, in the table inside it,
\* which is current: a resolves to the inner definition
C23_Hidden ==
    /\ allocated = << << "a" >>, << "b", "a" >> >>
    /\ resolve(table, "a") = Some(Symbol("a", "Local", 1))
    /\ resolve(Unwrap(get_outer(table)), "a") = Some(Symbol("a", "Global", 0))

\* ------------------------------------------------------------------------
\* C24
\* ------------------------------------------------------------------------

\* a call made from inside a function body has returned into that body
ResumedInBody ==
    /\ pc = "run"
    /\ vm.frames # << >>
    /\ Fetched(Len(hist)) > 0
    /\ LastFetched(Len(hist)).op = "Call"
    /\ Fetched(Len(hist)) \in hist[Len(hist)].executed

\* C24: after a call made from inside a function body has returned, the frame
\* base in effect is the base of the frame resumed, the one its arguments were
\* put at, and not the base of the frame popped, so that GetLocal(i) and
\* SetLocal(i) address the slots of the calling function
C24_BaseRestored ==
    ResumedInBody
        => /\ vm.base = hist[Len(hist)].depth
           /\ vm.base = vm.frames[Len(vm.frames)].base

\* ------------------------------------------------------------------------
\* C25
\* ------------------------------------------------------------------------

\* the Call about to be executed finds a function of as many parameters as it
\* has arguments
Callable ==
    /\ Executes("Call")
    /\ Len(vm.stack) > Operand
    /\ Callee.t = "CompiledFunction"
    /\ Callee.num_paras = Operand

\* C25: immediately after Call(n) on a CompiledFunction with num_params = n the
\* value stack has been extended by exactly num_locals - num_params Nulls above
\* the n arguments, so that its length is the frame base plus num_locals
C25_CallSlots ==
    [][ Callable
          => /\ vm'.stack = Remove(vm.stack, Len(vm.stack) - Operand - 1)
                              \o [k \in 1..(Callee.num_locals - Callee.num_paras) |-> NULL]
             /\ Len(vm'.stack) = vm'.base + Callee.num_locals ]_vars

\* ------------------------------------------------------------------------
\* C26
\* ------------------------------------------------------------------------

\* the run loop is about to execute a return inside a call: ReturnValue with
\* a value to return, or Return
Returns ==
    /\ vm.frames # << >>
    /\ \/ Executes("ReturnValue") /\ vm.stack # << >>
       \/ Executes("Return")

\* the value the return is to push
Returned == IF Head(vm.instructions).op = "ReturnValue" THEN Top(vm) ELSE NULL

\* the instructions of the caller that follow its Call
AfterTheCall ==
    SubSeq(hist[Len(hist) - 1].instrs, Fetched(Len(hist) - 1) + 1,
           Len(hist[Len(hist) - 1].instrs))

\* C26: ReturnValue pops the return value, truncates the value stack to the
\* base of the frame it pops, pushes the return value and restores the
\* caller's instruction vector, the next instruction executed being the one
\* that follows the Call; Return does the same and pushes Null; each pops
\* exactly one frame
C26_Return ==
    [][ Returns
          => /\ pc' = "run"
             /\ vm'.frames = SubSeq(vm.frames, 1, Len(vm.frames) - 1)
             /\ vm'.stack = Append(SubSeq(vm.stack, 1, vm.frames[Len(vm.frames)].base),
                                   Returned)
             /\ vm'.instructions = AfterTheCall
             /\ vm'.jump = 0 ]_vars

\* fn(a, b) { a - b }(5, 3) has returned: the arguments and the slots are
\* gone, 2 is on the stack and the Pop after the Call is next
C26_Returned ==
    /\ pc = "run"
    /\ vm.frames = << >>
    /\ Len(returns) = 1
    /\ Fetched(1) = 4
    /\ LastFetched(1) = OpN("Call", 2)
    /\ vm.stack = << IntObj(2) >>
    /\ vm.instructions = << Pop >>

\* ------------------------------------------------------------------------
\* C27
\* ------------------------------------------------------------------------

\* the last instruction of the function compiled from f
LastOfBody(c, f) ==
    Emitted(c, f).instructions[Len(Emitted(c, f).instructions)]

\* C27: every CompiledFunction body the compiler emits ends with ReturnValue
\* or Return, whatever the last statement of the function body is (expression
\* statement, return statement, let statement, or none)
C27_BodyEndsWithReturn ==
    Compiled
        => \A c \in EnclosingCompilers, f \in LineFunctions :
              ~compile_function(c, f.parameters, f.body).fatal
                  => /\ Emitted(c, f).instructions # << >>
                     /\ LastOfBody(c, f).op \in {"ReturnValue", "Return"}

\* ------------------------------------------------------------------------
\* C28
\* ------------------------------------------------------------------------

\* the current instruction vector is exhausted with a call frame still pushed
RanOutInCall ==
    /\ pc = "run"
    /\ vm.instructions = << >>
    /\ vm.frames # << >>

\* C28: when the VM exhausts the current instruction vector while a call frame
\* is still on the frame stack the run is fatal: run does not return its
\* triple, and the REPL does not print, with the caller's remaining
\* instructions left unexecuted
C28_RunOutIsFatal ==
    [][ RanOutInCall => (pc' = "fatal" /\ printed' = printed) ]_vars

\* ------------------------------------------------------------------------
\* C29
\* ------------------------------------------------------------------------

\* the If that is the only statement of the line has executed: the Pop of the
\* statement is all that is left to run
IfExecuted ==
    /\ pc = "run"
    /\ IsIfLine
    /\ vm.frames = << >>
    /\ vm.jump = 0
    /\ vm.instructions = << Pop >>

\* C29: after a compiled If expression has executed, the value stack is
\* exactly one value taller than it was before the code of its condition
\* started, whichever branch was taken and whatever the branches contain
C29_IfLeavesOneValue == IfExecuted => Len(vm.stack) = 1

\* ------------------------------------------------------------------------
\* C30
\* ------------------------------------------------------------------------

\* the Ifs of vector k whose condition was falsy
Falsy(k) == {t \in hist[k].taken : ~t.truthy}

\* the positions of vector k that the run loop has fetched
FetchedOf(k) == 1..Fetched(k)

\* the statement as made: on a falsy condition the alternative is run and the
\* If's Jump is executed after it, skipping 0 or 1 instructions
C30_FalsyPath_stated ==
    \A k \in 1..Len(hist) :
        \A t \in Falsy(k) :
            After(hist[k].instrs, t.pos) - 1 \in FetchedOf(k)
                => /\ JumpAt(hist[k].instrs, t.pos) \in hist[k].executed
                   /\ hist[k].instrs[JumpAt(hist[k].instrs, t.pos)].n \in {0, 1}

\* C30: on a falsy condition the VM skips offset_c instructions, which are the
\* consequence and the If's Jump, and lands on the first instruction of the
\* alternative (or on the padding Null), which is the next instruction
\* executed; the If's Jump, whose operand is at least 1, is not executed on
\* this path
C30_FalsyPath ==
    \A k \in 1..Len(hist) :
        \A t \in Falsy(k) :
            /\ hist[k].instrs[JumpAt(hist[k].instrs, t.pos)].op = "Jump"
            /\ hist[k].instrs[JumpAt(hist[k].instrs, t.pos)].n >= 1
            /\ \A i \in FetchedOf(k) :
                  (t.pos < i /\ i <= t.pos + hist[k].instrs[t.pos].n)
                      => i \notin hist[k].executed
            /\ JumpAt(hist[k].instrs, t.pos) + 1 \in FetchedOf(k)
                  => JumpAt(hist[k].instrs, t.pos) + 1 \in hist[k].executed

\* an If with a falsy condition and an alternative of more than one
\* instruction has been run to its end
C30_AlternativeRan ==
    /\ pc = "run"
    /\ \E k \in 1..Len(hist) :
          \E t \in Falsy(k) :
              /\ After(hist[k].instrs, t.pos) - 1 \in FetchedOf(k)
              /\ Cardinality(AlternativeOf(hist[k].instrs, t.pos)) > 1
              /\ AlternativeOf(hist[k].instrs, t.pos) \subseteq hist[k].executed
              /\ ConsequenceOf(hist[k].instrs, t.pos) # {}

\* ------------------------------------------------------------------------
\* C31
\* ------------------------------------------------------------------------

\* C31: executing Pop when the value stack is empty is fatal: the VM never
\* completes such a Pop by setting last_popped to absent and continuing
C31_PopOnEmptyIsFatal ==
    [][ (Executes("Pop") /\ vm.stack = << >>)
          => /\ pc' = "fatal"
             /\ vm'.fatal ]_vars

\* ------------------------------------------------------------------------
\* C32
\* ------------------------------------------------------------------------

\* C32: whenever the VM executes a GetGlobal(i) emitted by the compiler,
\* index i is present in the globals map: a SetGlobal(i) executed earlier has
\* assigned every global the compiler lets a program read
C32_GlobalsAssigned ==
    [][ Executes("GetGlobal") => Operand \in DOMAIN vm.globals ]_vars

\* ------------------------------------------------------------------------
\* C33
\* ------------------------------------------------------------------------

\* every GetLocal(i) and SetLocal(i) of the instructions has i < num_locals
WithinFrame(instructions, num_locals) ==
    \A k \in 1..Len(instructions) :
        instructions[k].op \in {"GetLocal", "SetLocal"} => instructions[k].n < num_locals

RECURSIVE OwnSlotsOnly(_)
\* every CompiledFunction among the constants of the instructions, and of the
\* bodies of those functions, addresses its own slots only
OwnSlotsOnly(instructions) ==
    \A k \in 1..Len(instructions) :
        (instructions[k].op = "Constant" /\ instructions[k].obj.t = "CompiledFunction")
            => /\ WithinFrame(instructions[k].obj.instructions, instructions[k].obj.num_locals)
               /\ OwnSlotsOnly(instructions[k].obj.instructions)

\* C33: in every CompiledFunction the compiler emits, each GetLocal(i) and
\* SetLocal(i) of the body has i < num_locals of that same function, also in
\* function literals nested inside other functions that mention names of the
\* enclosing function
C33_OwnSlots == Compiled => OwnSlotsOnly(code)

\* ------------------------------------------------------------------------
\* C34
\* ------------------------------------------------------------------------

\* the stack position, counted from 1, of local slot i of the current frame
Slot(i) == vm.base + i + 1

\* the instruction executed has taken the top of the stack into local slot i
\* and left every other slot as it was
StoredInSlot(i) ==
    /\ ~vm'.fatal
    /\ Len(vm'.stack) = Len(vm.stack) - 1
    /\ Slot(i) <= Len(vm'.stack)
    /\ vm'.stack[Slot(i)] = vm.stack[Len(vm.stack)]
    /\ \A j \in 1..Len(vm'.stack) : j # Slot(i) => vm'.stack[j] = vm.stack[j]

\* C34: SetLocal(i) removes the top of the stack, stores it at
\* stack[frame_base + i], shortens the stack by exactly one, and leaves every
\* other stack slot, the globals map and the frame stack unchanged
C34_SetLocal ==
    [][ Executes("SetLocal")
          => /\ StoredInSlot(Operand)
             /\ vm'.globals = vm.globals
             /\ vm'.frames = vm.frames ]_vars

\* ------------------------------------------------------------------------
\* C35
\* ------------------------------------------------------------------------

\* the line is `let n = e` where e mentions n and no other name: e is n, n + 1
\* or fn() { n }
LetOfItself(n) ==
    /\ Len(input) = 1
    /\ input[1].s = "Let"
    /\ input[1].ident = EIdent(n)
    /\ input[1].expr \in { EIdent(n), EInfix("+", EIdent(n), Num("1")),
                           EFunction(<< >>, SBlock(<< SExpr(EIdent(n)) >>)) }

RECURSIVE GlobalsRead(_)
\* the operands of the GetGlobal instructions, those of the function bodies
\* among the constants included
GlobalsRead(instructions) ==
    UNION { IF instructions[k].op = "GetGlobal" THEN {instructions[k].n}
            ELSE IF instructions[k].op = "Constant" /\ instructions[k].obj.t = "CompiledFunction"
            THEN GlobalsRead(instructions[k].obj.instructions)
            ELSE {} : k \in 1..Len(instructions) }

\* the line `let n = e` is refused by the compiler, which returns nothing, if n
\* was not bound before, and else reads n where it was bound before and
\* assigns the slot defined by this let
BoundBefore(n) ==
    IF resolve(symbol_table, n) = None
    THEN /\ pc = "fatal"
         /\ code = << >>
         /\ ~vm.fatal
    ELSE /\ pc # "read" => code # << >>
         /\ Compiled
              => /\ GlobalsRead(code) = {Unwrap(resolve(symbol_table, n)).index}
                 /\ code[Len(code)] = OpN("SetGlobal", symbol_table.num_definitions)
                 /\ symbol_table.num_definitions \notin GlobalsRead(code)

\* C35: in `let n = e`, e is compiled before n is defined: every occurrence of
\* n inside e, also inside a function literal in e, resolves to the binding n
\* had before this let, and is a compile-time fatal error with no instructions
\* returned if n had none
C35_LetOrder == \A n \in Names : LetOfItself(n) => BoundBefore(n)

\* `let a = fn() { a }` has been refused, a being unbound
C35_SelfReferenceRefused ==
    /\ input = << SLet(Ident_a, EFunction(<< >>, SBlock(<< SExpr(Ident_a) >>))) >>
    /\ resolve(symbol_table, "a") = None
    /\ pc = "fatal"

\* `let a = a + 1` has been compiled, a being bound by an earlier line
C35_EarlierBindingRead ==
    /\ input = << SLet(Ident_a, EInfix("+", Ident_a, Num("1"))) >>
    /\ resolve(symbol_table, "a") # None
    /\ Compiled

\* ------------------------------------------------------------------------
\* C36
\* ------------------------------------------------------------------------

\* whether eval_if, its condition evaluated to obj, evaluates the consequence
ConsequenceTaken(obj) ==
    eval_if_branch(Evaluated(obj, environment), SBlock(<< SExpr(EBool("true")) >>),
                   SBlock(<< SExpr(EBool("false")) >>), 0, TRUE).obj = TRUE_OBJ

\* the instruction executed has popped one value and set the skip-counter to n
PoppedAndSkips(n) ==
    /\ pc' = "run"
    /\ vm'.stack = SubSeq(vm.stack, 1, Len(vm.stack) - 1)
    /\ vm'.instructions = Tail(vm.instructions)
    /\ vm'.jump = n

\* C36: JumpNotTruthy(off) pops exactly one value and sets the skip-counter to
\* off if and only if that value is Bool(false) or Null; for every other value,
\* Int(0) included, the skip-counter stays 0 and the consequence runs, matching
\* the truthiness of the evaluator
C36_Truthiness ==
    [][ (Executes("JumpNotTruthy") /\ vm.stack # << >>)
          => /\ PoppedAndSkips(IF Right \in {FALSE_OBJ, NULL} THEN Operand ELSE 0)
             /\ Operand > 0
             /\ Right.t \in {"Int", "Bool", "Null"}
                   => (ConsequenceTaken(Right) <=> vm'.jump = 0) ]_vars

\* the condition Int(0) has been found truthy
C36_ZeroIsTruthy ==
    /\ pc = "run"
    /\ \E t \in hist[1].taken :
          /\ t.truthy
          /\ hist[1].instrs[t.pos - 1] = Constant(IntObj(0))

\* ------------------------------------------------------------------------
\* C37
\* ------------------------------------------------------------------------

\* q is l / r rounded toward zero: the remainder is smaller than the divisor
\* and is zero or has the sign of the dividend
TruncatedQuotient(q, l, r) ==
    LET rem == l - q * r
    IN  /\ (IF rem < 0 THEN -rem ELSE rem) < (IF r < 0 THEN -r ELSE r)
        /\ rem # 0 => ((rem < 0) <=> (l < 0))

\* the instruction executed has popped two Ints and pushed their quotient
\* truncated toward zero, an i32
Divided ==
    /\ pc' = "run"
    /\ Len(vm'.stack) = Len(vm.stack) - 1
    /\ SubSeq(vm'.stack, 1, Len(vm.stack) - 2) = SubSeq(vm.stack, 1, Len(vm.stack) - 2)
    /\ Top(vm').t = "Int"
    /\ I32Min <= Top(vm').i /\ Top(vm').i <= I32Max
    /\ TruncatedQuotient(Top(vm').i, Left.i, Right.i)

\* Div is about to be executed on two Ints
DividesInts ==
    /\ Executes("Div")
    /\ Len(vm.stack) >= 2
    /\ Left.t = "Int"
    /\ Right.t = "Int"

\* the statement as made: every non-zero divisor yields a quotient
C37_Div_stated ==
    [][ DividesInts => IF Right.i = 0 THEN Fatal ELSE Divided ]_vars

\* C37: Div on two Int operands with a non-zero divisor, i32::MIN / -1 apart,
\* pushes the quotient truncated toward zero as a signed 32-bit value; Div
\* with divisor 0, and i32::MIN / -1, is fatal and pushes nothing
C37_Div ==
    [][ DividesInts
          => IF Right.i = 0 \/ (Left.i = I32Min /\ Right.i = -1) THEN Fatal ELSE Divided ]_vars

\* -7 / 2 has been executed and has pushed -3
C37_NegativeDividend ==
    /\ input = << SExpr(EInfix("/", EPrefix("-", Num("7")), Num("2"))) >>
    /\ pc = "run"
    /\ vm.stack = << IntObj(-3) >>

\* ------------------------------------------------------------------------
\* C38
\* ------------------------------------------------------------------------

\* a call of next has returned a token
TokenReturned == tokens' # tokens

\* C38: each call of next that returns a token consumes at least one char of
\* the input, so that the token stream of every input is finite; a char
\* outside the grammar yields an identifier token after which lexing goes on
\* with the chars that follow it
C38_LexerAdvances ==
    [][ TokenReturned => lexer'.pos > lexer.pos ]_vars

\* ------------------------------------------------------------------------
\* C39
\* ------------------------------------------------------------------------

\* a call of next has returned a statement
StatementReturned == statements' # statements

\* C39: every parse_statement call that returns a statement advances the token
\* position, also when the current token cannot start an expression and after
\* the argument list of a call, so that the statement stream of every finite
\* token sequence is finite
C39_ParserAdvances ==
    [][ StatementReturned => parser'.pos > parser.pos ]_vars

\* ------------------------------------------------------------------------
\* C40
\* ------------------------------------------------------------------------

\* the level an infix operator is grouped at, the lowest first
Level(o) ==
    CASE o \in {"==", "!="} -> 1
      [] o \in {"<", ">"} -> 2
      [] o \in {"+", "-"} -> 3
      [] o \in {"*", "/"} -> 4

\* the literal d
Lit(d) == EInt(d)

\* a(d)
CallOf(d) == ECall(EIdent("a"), << Lit(d) >>)

\* 1 o 2 p 3 grouped by level, and to the left at equal levels
Grouped(o, p) ==
    IF Level(p) > Level(o)
    THEN EInfix(o, Lit("1"), EInfix(p, Lit("2"), Lit("3")))
    ELSE EInfix(p, EInfix(o, Lit("1"), Lit("2")), Lit("3"))

\* the line is parsed as the one expression statement expr
ParsedAs(texts, expr) ==
    parser.input = TokensOf(texts)
        => /\ statements \in { << >>, << SExpr(expr) >> }
           /\ parse_pc \in {"next", "done"}

\* infix operators are grouped by level and parentheses make a unit
GroupsOperators ==
    \A o \in OperatorLexemes, p \in OperatorLexemes :
        /\ ParsedAs(<< "1", o, "2", p, "3" >>, Grouped(o, p))
        /\ ParsedAs(<< "(", "1", o, "2", ")", p, "3" >>,
                    EInfix(p, EInfix(o, Lit("1"), Lit("2")), Lit("3")))
        /\ ParsedAs(<< "1", o, "(", "2", p, "3", ")" >>,
                    EInfix(o, Lit("1"), EInfix(p, Lit("2"), Lit("3"))))

\* a prefix operator takes its operand before any infix operator does
GroupsPrefixes ==
    \A o \in OperatorLexemes :
        /\ ParsedAs(<< "-", "1", o, "2" >>, EInfix(o, EPrefix("-", Lit("1")), Lit("2")))
        /\ ParsedAs(<< "!", "1", o, "2" >>, EInfix(o, EPrefix("!", Lit("1")), Lit("2")))
        /\ ParsedAs(<< "1", o, "-", "2" >>, EInfix(o, Lit("1"), EPrefix("-", Lit("2"))))

\* a call takes its function before any prefix or infix operator does
GroupsCalls ==
    /\ ParsedAs(<< "-", "a", "(", "1", ")" >>, EPrefix("-", CallOf("1")))
    /\ ParsedAs(<< "!", "a", "(", "1", ")" >>, EPrefix("!", CallOf("1")))
    /\ \A o \in OperatorLexemes :
          /\ ParsedAs(<< "1", o, "a", "(", "2", ")" >>, EInfix(o, Lit("1"), CallOf("2")))
          /\ ParsedAs(<< "a", "(", "1", ")", o, "2" >>, EInfix(o, CallOf("1"), Lit("2")))

\* C40: the parser groups by precedence, lowest to highest: == and !=, then <
\* and >, then + and -, then * and /, then prefix - and !, then call; operators
\* of equal precedence group to the left and a parenthesised expression is
\* parsed as a unit
C40_Precedence ==
    /\ GroupsOperators
    /\ GroupsPrefixes
    /\ GroupsCalls

====
